---- MODULE Spec2Model ----
(***************************************************************************)
(* process-proxy: one controller-side ProcessProxyConnection (connection.ts)*)
(* with its three stream facades, the socket between them, and the native  *)
(* endpoint's command loop (native/main.c).                                *)
(*                                                                         *)
(* The promise chain `queue` is the sequence `ops`: ops[i] is the i-th     *)
(* call of invoke(), and its handleInvoke may start once ops[i-1] has      *)
(* settled.  Every `await` of handleInvoke is a step of its own.  The two  *)
(* directions of the socket are byte sequences; integers travel as four    *)
(* little-endian bytes and are decoded from them.                          *)
(***************************************************************************)
EXTENDS Integers, Sequences, FiniteSets, TLC

\* ------------------------------------------------------------------ opcodes
GET_ARGS == 1
READ_STDIN == 2
WRITE_STDOUT == 3
WRITE_STDERR == 4
GET_CWD == 5
GET_ENV == 6
EXIT == 7
CLOSE_STDIN == 9
CLOSE_STDOUT == 10
CLOSE_STDERR == 11
IS_STDIN_CONNECTED == 12

\* ------------------------------------------------------------------- bounds
\* Calls the consumer makes on the connection and its facades in one run.
MaxCalls == 3
\* READ_STDIN commands the input facade re-issues from its polling timer.
MaxPolls == 1

\* --------------------------------------------------------- program inputs
\* argv of the child: the program name alone, or followed by an empty argument.
Argvs == { << <<112>> >>, << <<112>>, <<>> >> }
\* environ of the child: one KEY=VALUE entry ("K=V").
Environ == << <<75, 61, 86>> >>
\* getcwd() of the child ("/\u00e9", three bytes of UTF-8).
Cwd == << 47, 195, 169 >>
\* strerror(EBADF)-like text the endpoint sends with a failure ("EB").
ErrorMessage == << 69, 66 >>
\* Buffers the consumer writes to stdout/stderr: one byte, equal to the EXIT
\* opcode.
WriteData == { << 7 >> }
\* Bytes waiting on the child's standard input.
StdinInputs == { <<>>, << 120 >> }
\* The exit code the consumer passes to exit().
ExitCode == 3
\* highWaterMark of a Readable: the size Node passes to _read().
ReadSize == 64 * 256

Facades == { "stdin", "stdout", "stderr" }
OutFacades == { "stdout", "stderr" }

\* ---------------------------------------------------------------- framing
uint8(num) == << num >>

uint32(num) ==
  << num % 256, (num \div 256) % 256, (num \div 65536) % 256,
     (num \div 16777216) % 256 >>

\* writeInt32LE: two's complement, computed without leaving 32 bits.
int32(num) ==
  IF num >= 0 THEN uint32(num)
  ELSE LET m == num + 2147483647 + 1
       IN  << m % 256, (m \div 256) % 256, (m \div 65536) % 256,
              ((m \div 16777216) % 256) + 128 >>

\* buf.readUInt32LE(0); the model only carries values below 2^31.
readUInt32LE(b) == b[1] + 256 * b[2] + 65536 * b[3] + 16777216 * b[4]

\* buf.readInt32LE(0)
readInt32LE(b) ==
  b[1] + 256 * b[2] + 65536 * b[3]
    + 16777216 * (IF b[4] >= 128 THEN b[4] - 256 ELSE b[4])

\* A length-prefixed string as the endpoint writes it: u32 length, then bytes.
LengthPrefixed(s) == uint32(Len(s)) \o s

RECURSIVE LengthPrefixedAll(_)
LengthPrefixedAll(ss) ==
  IF ss = <<>> THEN <<>>
  ELSE LengthPrefixed(Head(ss)) \o LengthPrefixedAll(Tail(ss))

Take(s, n) == SubSeq(s, 1, n)
Drop(s, n) == SubSeq(s, n + 1, Len(s))

Min(a, b) == IF a < b THEN a ELSE b

\* ------------------------------------------------------- the handshake's bytes
\* const HANDSHAKE_PROTOCOL = 'ProcessProxy 0001 ': as a string its characters,
\* as bytes the same numbers.
HANDSHAKE_PROTOCOL ==
  << 80, 114, 111, 99, 101, 115, 115, 80, 114, 111, 120, 121, 32, 48, 48, 48,
     49, 32 >>

HANDSHAKE_PROTOCOL_LENGTH == 18
HANDSHAKE_TOKEN_LENGTH == 128
HANDSHAKE_LENGTH == HANDSHAKE_PROTOCOL_LENGTH + HANDSHAKE_TOKEN_LENGTH

Rep(b, n) == [j \in 1..n |-> b]

\* U+FFFD, which the decoder puts in place of an ill-formed sequence.
Replacement == 65533

\* The second byte a three- or four-byte sequence led by b1 may have.
SecondOf(b1) ==
  CASE b1 = 224 -> 160..191
    [] b1 = 237 -> 128..159
    [] b1 = 240 -> 144..191
    [] b1 = 244 -> 128..143
    [] OTHER -> 128..191

\* The length of the longest prefix of s whose elements are all below 128:
\* bytes and characters that UTF-8 leaves as they are.
AsciiRun(s) ==
  IF \A j \in DOMAIN s : s[j] < 128 THEN Len(s)
  ELSE (CHOOSE j \in DOMAIN s : s[j] >= 128 /\ \A k \in 1..(j - 1) : s[k] < 128) - 1

\* buffer.toString('utf8'): a string as its code points.  A well-formed
\* sequence of one to four bytes gives its code point; an ill-formed one gives
\* U+FFFD for its longest prefix that starts a well-formed sequence, or for
\* its first byte.
RECURSIVE Utf8Decode(_)
Utf8Decode(b) ==
  IF b = <<>> THEN <<>>
  ELSE LET b1 == b[1]
           cont(k) == k <= Len(b) /\ b[k] \in 128..191
           second == Len(b) >= 2 /\ b[2] \in SecondOf(b1)
           low(k) == b[k] - 128
       IN  CASE b1 < 128 ->
                  Take(b, AsciiRun(b)) \o Utf8Decode(Drop(b, AsciiRun(b)))
             [] b1 \in 194..223 /\ cont(2) ->
                  << (b1 - 192) * 64 + low(2) >> \o Utf8Decode(Drop(b, 2))
             [] b1 \in 224..239 /\ second ->
                  IF cont(3)
                  THEN << (b1 - 224) * 4096 + low(2) * 64 + low(3) >>
                         \o Utf8Decode(Drop(b, 3))
                  ELSE << Replacement >> \o Utf8Decode(Drop(b, 2))
             [] b1 \in 240..244 /\ second ->
                  IF cont(3) /\ cont(4)
                  THEN << (b1 - 240) * 262144 + low(2) * 4096 + low(3) * 64
                            + low(4) >> \o Utf8Decode(Drop(b, 4))
                  ELSE << Replacement >>
                         \o Utf8Decode(Drop(b, IF cont(3) THEN 3 ELSE 2))
             [] OTHER -> << Replacement >> \o Utf8Decode(Tail(b))

\* A string's bytes in UTF-8, as the environment of a spawned child holds them.
RECURSIVE Utf8Encode(_)
Utf8Encode(str) ==
  IF str = <<>> THEN <<>>
  ELSE LET c == str[1]
       IN  (CASE c < 128 -> Take(str, AsciiRun(str))
              [] c \in 128..2047 -> << 192 + (c \div 64), 128 + (c % 64) >>
              [] c \in 2048..65535 ->
                   << 224 + (c \div 4096), 128 + ((c \div 64) % 64),
                      128 + (c % 64) >>
              [] OTHER ->
                   << 240 + (c \div 262144), 128 + ((c \div 4096) % 64),
                      128 + ((c \div 64) % 64), 128 + (c % 64) >>)
           \o Utf8Encode(Drop(str, IF c < 128 THEN AsciiRun(str) ELSE 1))

\* buffer.indexOf(0): the zero-based position of the first zero byte, or -1.
indexOf0(b) ==
  IF \E j \in DOMAIN b : b[j] = 0
  THEN (CHOOSE j \in DOMAIN b : b[j] = 0 /\ \A k \in 1..(j - 1) : b[k] # 0) - 1
  ELSE -1

\* buffer.subarray(start, end): both ends are clamped to the buffer.
subarray(buffer, start, end) ==
  SubSeq(buffer, Min(start, Len(buffer)) + 1, Min(end, Len(buffer)))

\* buffer.subarray(HANDSHAKE_PROTOCOL_LENGTH, HANDSHAKE_LENGTH)
tokenBuffer(buffer) == subarray(buffer, HANDSHAKE_PROTOCOL_LENGTH, HANDSHAKE_LENGTH)

\* buffer.subarray(0, HANDSHAKE_PROTOCOL_LENGTH).toString('utf-8')
protocolHeader(buffer) == Utf8Decode(subarray(buffer, 0, HANDSHAKE_PROTOCOL_LENGTH))

\* A token parser that decodes the whole field.
ExtractTokenWholeField(buffer) == Utf8Decode(tokenBuffer(buffer))

\* nullIndex === -1 ? tokenBuffer.toString('utf8')
\*                   : tokenBuffer.subarray(0, nullIndex).toString('utf8')
ExtractToken(buffer) ==
  LET nullIndex == indexOf0(tokenBuffer(buffer))
  IN  IF nullIndex = -1 THEN Utf8Decode(tokenBuffer(buffer))
      ELSE Utf8Decode(Take(tokenBuffer(buffer), nullIndex))

\* getenv("PROCESS_PROXY_TOKEN") returned NULL.
Unset == << -1 >>

\* An endpoint that copies the whole value behind the header.
BuildHandshakeUncapped(token_env) ==
  LET token_len == IF token_env = Unset THEN 0 ELSE Len(token_env)
  IN  HANDSHAKE_PROTOCOL \o Take(token_env, token_len)
        \o Rep(0, HANDSHAKE_TOKEN_LENGTH - Min(token_len, HANDSHAKE_TOKEN_LENGTH))

\* char handshake[146]; memset 0; memcpy of the header; memcpy of the value of
\* PROCESS_PROXY_TOKEN, 128 bytes of it at most.
BuildHandshake(token_env) ==
  LET token_len == IF token_env = Unset THEN 0
                   ELSE Min(Len(token_env), HANDSHAKE_TOKEN_LENGTH)
  IN  HANDSHAKE_PROTOCOL \o Take(token_env, token_len)
        \o Rep(0, HANDSHAKE_TOKEN_LENGTH - token_len)

VARIABLES
  ops,          \* the promise chain: every invoke() so far, in call order
  hasSentExit,  \* connection.hasSentExit
  sockClosed,   \* socket.closed
  closeEvents,  \* number of 'close' events the connection has emitted
  destroyed,    \* facade -> stream.destroyed
  writing,      \* output facade -> a _write is awaiting its callback
  wbuf,         \* output facade -> writes buffered by Writable behind it
  accepted,     \* every write an output facade accepted, in call order
  stdinSt,      \* input facade: "idle", "reading", "react", "timer", "ended", "stalled"
  flowing,      \* stdin.readableFlowing
  delivered,    \* bytes the input facade pushed to its consumer
  polls,        \* READ_STDIN commands issued from the polling timer
  calls,        \* calls the consumer has made
  c2e,          \* bytes written to the socket, not yet read by the endpoint
  e2c,          \* bytes the endpoint sent, not yet read by the connection
  wire,         \* one entry per opcode byte written: the op it belongs to
  ep,           \* the endpoint: command loop position, descriptors, child I/O
  argv,         \* the child's arguments
  hs            \* the acceptor's handshake with the socket's peer

vars ==
  << ops, hasSentExit, sockClosed, closeEvents, destroyed, writing, wbuf,
     accepted, stdinSt, flowing, delivered, polls, calls, c2e, e2c, wire, ep,
     argv, hs >>

Settled == { "resolved", "rejected" }

\* The child's arguments and the bytes waiting on its standard input are fixed
\* outside the connection; the model draws each when the endpoint first
\* looks at it, and it stays as drawn.  An argv always holds the program
\* name, so the empty one stands for "not drawn yet".
Unobserved == << -1 >>
NoArgv == <<>>

\* ---------------------------------------------------- the handshake's inputs
\* What connects to the acceptor: the native endpoint started with a value of
\* PROCESS_PROXY_TOKEN (one to three characters, a value that fills the field,
\* values one byte too long), or a peer that sends bytes of its own.
Tok == << 116, 111, 107 >>

EnvTokens ==
  { Unset, <<>>, Tok, << 195, 169 >> \o Tok, Rep(97, HANDSHAKE_TOKEN_LENGTH),
    Rep(97, HANDSHAKE_TOKEN_LENGTH + 1),
    Rep(97, HANDSHAKE_TOKEN_LENGTH - 1) \o << 195, 169 >> }

RawSends ==
  { Rep(0, HANDSHAKE_LENGTH),
    [HANDSHAKE_PROTOCOL EXCEPT ![17] = 50] \o Rep(0, HANDSHAKE_TOKEN_LENGTH),
    Take(BuildHandshake(Tok), 10),
    HANDSHAKE_PROTOCOL \o << 116, 0, 107 >> \o Rep(0, HANDSHAKE_TOKEN_LENGTH - 3),
    HANDSHAKE_PROTOCOL \o << 255, 116 >> \o Rep(0, HANDSHAKE_TOKEN_LENGTH - 2),
    BuildHandshake(Tok) \o << 0, 0, 0, 0, 5 >>,
    BuildHandshake(Tok) \o << 1, 0, 0, 0 >> }

Peers ==
  { [kind |-> "endpoint", env |-> e, sent |-> BuildHandshake(e)] : e \in EnvTokens }
    \cup { [kind |-> "raw", env |-> Unset, sent |-> r] : r \in RawSends }

\* options.validateConnection: absent, (token) => token === expected as the
\* tests have it, or one whose promise rejects.
Validators == { "none", "match", "throw" }

Expected == Utf8Decode(Tok)

\* A socket the server has just accepted.  History kept beside the handshake's
\* position st: arrived (bytes of `sent` that reached the socket), why (what
\* failed), got (the buffer readSocket resolved with), asked (calls of the
\* validator), verdict (what it answered), conn and listener (Connections
\* constructed, calls of the consumer's callback), ended (socket.end() called),
\* parts (1 when the buffer read had arrived as one chunk, 2 when as more),
\* extra (bytes that had arrived behind the buffer when it was read),
\* expired (the state the handshake was in when its deadline timer fired).
Fresh(peer, validator) ==
  [ kind |-> peer.kind, env |-> peer.env, sent |-> peer.sent,
    validator |-> validator, arrived |-> 0, st |-> "reading", why |-> "none",
    got |-> <<>>, token |-> Unobserved, asked |-> 0, verdict |-> "none",
    conn |-> 0, listener |-> 0, ended |-> FALSE, parts |-> 0, extra |-> 0,
    expired |-> "none" ]

\* The handshake behind a connection of an endpoint started without a token,
\* on a server without a validator; its bytes are not kept.
Admitted ==
  [ Fresh([kind |-> "endpoint", env |-> Unset, sent |-> <<>>], "none")
    EXCEPT !.st = "accepted", !.token = <<>>, !.conn = 1, !.listener = 1,
           !.parts = 1 ]

\* The fields of a Connection as its constructor leaves them, and its endpoint.
Constructed ==
  /\ ops = <<>>
  /\ hasSentExit = FALSE
  /\ sockClosed = FALSE
  /\ closeEvents = 0
  /\ destroyed = [f \in Facades |-> FALSE]
  /\ writing = [f \in OutFacades |-> FALSE]
  /\ wbuf = [f \in OutFacades |-> <<>>]
  /\ accepted = <<>>
  /\ stdinSt = "idle"
  /\ flowing = TRUE
  /\ delivered = <<>>
  /\ polls = 0
  /\ calls = 0
  /\ c2e = <<>>
  /\ e2c = <<>>
  /\ wire = <<>>
  /\ argv = NoArgv

\* The port the server listens on, as spawn passes it: "65535".
ListenPort == << 54, 53, 53, 51, 53 >>

\* The endpoint at the top of its command loop.  `full`: what the child's
\* output goes to has no room, so that fwrite may report a short count.
\* `fed`: how many bytes of StdinText the child's parent has written.
\* `nomem`: the child is short of memory, so that malloc may return NULL.
\* `yes`: the nonzero value this endpoint answers IS_STDIN_CONNECTED with.
\* `asked`: the frame of the last IS_STDIN_CONNECTED handled, whether input
\* was connected then and whether its writer had closed it.
\* `environ`: the child's environment block.
\* `port`: the value of PROCESS_PROXY_PORT.  `posix`: the build is the POSIX
\* one, not the Windows one.  `why`: what ended the process ("none" while it
\* runs).  `rcvd`: every byte recv has given the endpoint so far.
\* `flaky`: a read of the child's input may fail with an error other than
\* EAGAIN.  `nonblock`: O_NONBLOCK is set on the child's input.
Endpoint(full) ==
  [ st |-> "opcode", cmd |-> 0, frames |-> 0, exitCode |-> -1,
    open |-> [f \in Facades |-> TRUE],
    stdinBuf |-> Unobserved, stdinEof |-> FALSE, fed |-> 0,
    out |-> [f \in OutFacades |-> <<>>], full |-> full, nomem |-> FALSE,
    yes |-> 1, asked |-> [frame |-> 0, connected |-> FALSE, eof |-> FALSE],
    environ |-> Environ, port |-> ListenPort, posix |-> TRUE, why |-> "none",
    rcvd |-> <<>>, flaky |-> FALSE, nonblock |-> FALSE ]

Init ==
  /\ Constructed
  /\ ep = Endpoint(FALSE)
  /\ hs = Admitted

\* ------------------------------------------------------------ the promise chain
\* The facades' and the chain's state that one handler may change together.
Cur ==
  [ ops |-> ops, destroyed |-> destroyed, writing |-> writing, wbuf |-> wbuf,
    stdinSt |-> stdinSt ]

Apply(F) ==
  /\ ops' = F.ops
  /\ destroyed' = F.destroyed
  /\ writing' = F.writing
  /\ wbuf' = F.wbuf
  /\ stdinSt' = F.stdinSt

\* One call of invoke(): the command, its payload fragments, the closed-branch
\* option ("none", "resolve", "reject"), whether it has an onBeforeSend hook,
\* the facade whose reaction is attached to its promise, and who called.
\* History kept beside it: afterExit (an exit had resolved when it was
\* submitted), frame (the position of its opcode among the opcodes written),
\* sfrom (where the bytes of its status came from), head (what handleInvoke
\* found when it started), atClose (where it stood when the socket closed),
\* mix (it consumed bytes of a response to another frame), status (the status
\* code it read, meaningful once sfrom is set), cb (how the callback of _write
\* was called: "ok" without an error, "error" with one), flow (what
\* readableFlowing was when ReadStream's reaction to it ran).
NewOp(cmd, payload, onClosed, before, src, wid, call) ==
  [ cmd |-> cmd, payload |-> payload, onClosed |-> onClosed, before |-> before,
    src |-> src, wid |-> wid, call |-> call,
    afterExit |-> \E j \in DOMAIN ops : ops[j].cmd = EXIT /\ ops[j].st = "resolved",
    st |-> "pending", pc |-> "start", k |-> 0, n |-> 0, acc |-> <<>>,
    res |-> "none", err |-> "none", msg |-> <<>>, frame |-> 0, sfrom |-> <<>>,
    head |-> "none", atClose |-> "none", mix |-> FALSE, status |-> 0,
    cb |-> "none", flow |-> "none" ]

\* return (this.queue = this.queue.then(handleInvoke, handleInvoke))
invoke(F, op) == [F EXCEPT !.ops = Append(@, op)]

\* A chain that does not wait: handleInvoke called at once, not from queue.then.
ChainReadyNoWait(i) == TRUE

\* handleInvoke of ops[i] runs when the promise before it has settled.
ChainReady(i) == IF i = 1 THEN TRUE ELSE ops[i - 1].st \in Settled

CloseCmd(f) ==
  CASE f = "stdin" -> CLOSE_STDIN
    [] f = "stdout" -> CLOSE_STDOUT
    [] f = "stderr" -> CLOSE_STDERR

WriteCmd(f) == IF f = "stdout" THEN WRITE_STDOUT ELSE WRITE_STDERR

\* closeStream with exit's onConnectionClosed: a rejection.
closeStreamRejecting(F, cmd, call) ==
  invoke(F, NewOp(cmd, <<>>, "reject", FALSE, "none", 0, call))

\* closeStream(cmd): send(cmd, [], { onConnectionClosed: resolve })
closeStream(F, cmd, call) ==
  invoke(F, NewOp(cmd, <<>>, "resolve", FALSE, "none", 0, call))

\* A writeStream that sends the command again after sending it.
writeStreamTwice(F, f, w) ==
  LET op == NewOp(WriteCmd(f), << uint32(Len(w.data)), w.data >>, "none", FALSE,
                  f, w.wid, w.call)
  IN  invoke(invoke(F, op), op)

\* writeStream(cmd, data): send(cmd, [uint32(data.length), data])
writeStream(F, f, w) ==
  invoke(F, NewOp(WriteCmd(f), << uint32(Len(w.data)), w.data >>, "none",
                  FALSE, f, w.wid, w.call))

\* readStdin(maxBytes): invoke(READ_STDIN, [uint32(maxBytes)], ...)
readStdin(F, call) ==
  invoke(F, NewOp(READ_STDIN, << uint32(ReadSize) >>, "none", FALSE, "stdin",
                  0, call))

\* A destroy() that runs _destroy on a destroyed facade as well.
DestroyFacadeAgain(F, f) ==
  closeStream(
    [F EXCEPT !.destroyed[f] = TRUE,
              !.wbuf = [g \in OutFacades |-> IF g = f THEN <<>> ELSE @[g]]],
    CloseCmd(f), 0)

\* stream.destroy(): marks the facade destroyed, fails the writes a Writable
\* still buffers, and runs _destroy, which enqueues the close command.
\* A destroyed facade is left alone.
DestroyFacade(F, f) ==
  IF F.destroyed[f] THEN F
  ELSE closeStream(
         [F EXCEPT !.destroyed[f] = TRUE,
                   !.wbuf = [g \in OutFacades |-> IF g = f THEN <<>> ELSE @[g]]],
         CloseCmd(f), 0)

\* destroyIfNecessary(this.stdin, this.stdout, this.stderr)
destroyIfNecessary(F) ==
  DestroyFacade(DestroyFacade(DestroyFacade(F, "stdin"), "stdout"), "stderr")

\* The Writable's reaction to the callback of _write: on success the next
\* buffered write goes to _write, on failure the stream is destroyed.
WriteCallback(F, f, ok) ==
  IF ok
  THEN IF F.wbuf[f] # <<>>
       THEN writeStream([F EXCEPT !.wbuf[f] = Tail(@)], f, Head(F.wbuf[f]))
       ELSE [F EXCEPT !.writing[f] = FALSE]
  ELSE DestroyFacade([F EXCEPT !.writing[f] = FALSE], f)

\* Reactions that call the callback of _write without an error either way.
OnSettleIgnoringError(F, i) ==
  LET o == F.ops[i]
  IN  CASE o.src \in OutFacades ->
             WriteCallback([F EXCEPT !.ops[i].cb = "ok"], o.src, TRUE)
        [] o.src = "stdin" -> [F EXCEPT !.stdinSt = "react"]
        [] OTHER -> F

\* The reactions the issuing facade attached to the promise of ops[i]:
\* _write's .then(() => callback()).catch((error) => callback(error)),
\* ReadStream's handlers.
OnSettle(F, i) ==
  LET o == F.ops[i]
      ok == o.st = "resolved"
  IN  CASE o.src \in OutFacades ->
             WriteCallback([F EXCEPT !.ops[i].cb = IF ok THEN "ok" ELSE "error"],
                           o.src, ok)
        [] o.src = "stdin" -> [F EXCEPT !.stdinSt = "react"]
        [] OTHER -> F

Resolve(F, i, res, acc) ==
  OnSettle([F EXCEPT !.ops[i].st = "resolved", !.ops[i].pc = "done",
                     !.ops[i].res = res, !.ops[i].acc = acc], i)

Reject(F, i, err, msg) ==
  OnSettle([F EXCEPT !.ops[i].st = "rejected", !.ops[i].pc = "done",
                     !.ops[i].err = err, !.ops[i].msg = msg], i)

\* public get closed(): boolean { return this.socket.closed }
closed == sockClosed

\* A closed branch that tests the exit latch alone.
ClosedBranchAfterExit(o) == hasSentExit /\ o.onClosed # "none"

\* A closed branch that tests the socket alone.
ClosedBranchSocketOnly(o) == closed /\ o.onClosed # "none"

\* if (this.closed || this.hasSentExit) { if (opts?.onConnectionClosed) ... }
ClosedBranch(o) == (closed \/ hasSentExit) /\ o.onClosed # "none"

\* readSocket(socket, length): tryRead resolves inside its loop, which runs
\* only while bytesReceived < length, once socket.read(length) returns data.
CanRead(length) == length > 0 /\ Len(e2c) >= length

Bytes(s) == [j \in 1..Len(s) |-> s[j].b]

\* ------------------------------------------------------- the consumer's calls
Others == << hasSentExit, sockClosed, closeEvents, flowing, delivered, polls,
             c2e, e2c, wire, ep, argv, hs >>

Call(F) ==
  /\ calls < MaxCalls
  /\ calls' = calls + 1
  /\ Apply(F)
  /\ UNCHANGED Others

getArgs ==
  /\ Call(invoke(Cur, NewOp(GET_ARGS, <<>>, "none", FALSE, "user", 0, calls + 1)))
  /\ UNCHANGED accepted

getEnv ==
  /\ Call(invoke(Cur, NewOp(GET_ENV, <<>>, "none", FALSE, "user", 0, calls + 1)))
  /\ UNCHANGED accepted

getCwd ==
  /\ Call(invoke(Cur, NewOp(GET_CWD, <<>>, "none", FALSE, "user", 0, calls + 1)))
  /\ UNCHANGED accepted

isStdinConnected ==
  /\ Call(invoke(Cur, NewOp(IS_STDIN_CONNECTED, <<>>, "none", FALSE, "user", 0,
                            calls + 1)))
  /\ UNCHANGED accepted

\* exit(code): its onBeforeSend destroys the facades, its closed branch rejects.
exit ==
  /\ Call(invoke(Cur, NewOp(EXIT, << int32(ExitCode) >>, "reject", TRUE, "user",
                            0, calls + 1)))
  /\ UNCHANGED accepted

\* closeStream(CLOSE_STDIN) called directly, as the tests do through the
\* private method.
CloseStreamCall ==
  /\ Call(closeStream(Cur, CLOSE_STDIN, calls + 1))
  /\ UNCHANGED accepted

\* stream.destroy() by the consumer; a no-op on a destroyed facade.
DestroyCall ==
  \E f \in Facades :
    /\ Call(DestroyFacade(Cur, f))
    /\ UNCHANGED accepted

\* stdout.write(data) / stderr.write(data): Writable hands the chunk to _write
\* when no _write is awaiting its callback, and buffers it otherwise.
WriteOf(buffers) ==
  \E f \in OutFacades, data \in buffers :
    LET w == [ wid |-> Len(accepted) + 1, data |-> data, call |-> calls + 1,
               f |-> f ]
    IN  /\ ~destroyed[f]
        /\ accepted' = Append(accepted, w)
        /\ Call(IF writing[f]
                THEN [Cur EXCEPT !.wbuf[f] = Append(@, w)]
                ELSE writeStream([Cur EXCEPT !.writing[f] = TRUE], f, w))

WriteCall == WriteOf(WriteData)

\* Buffers of no byte and of two bytes ("AB").
Buffers == { <<>>, << 65, 66 >> }

\* stdout.write / stderr.write of an empty buffer or of a longer one.
WriteBuffer == WriteOf(Buffers)

\* Readable calls _read(size) when its consumer wants data and no read is
\* outstanding: ReadStream._read issues readStdin(size).
ReadCall ==
  /\ stdinSt = "idle"
  /\ ~destroyed["stdin"]
  /\ Call(readStdin([Cur EXCEPT !.stdinSt = "reading"], calls + 1))
  /\ UNCHANGED accepted

\* --------------------------------------------------------------- handleInvoke
Running(i, pcs) == ops[i].st = "running" /\ ops[i].pc \in pcs

\* The start of handleInvoke: the onBeforeSend hook, then the closed branch.
HandleInvoke ==
  \E i \in DOMAIN ops :
    LET o == ops[i]
        found == CASE sockClosed -> "closed"
                   [] hasSentExit -> "exited"
                   [] OTHER -> "open"
        F == [(IF o.before THEN destroyIfNecessary(Cur) ELSE Cur)
                EXCEPT !.ops[i].head = found]
    IN  /\ o.st = "pending"
        /\ ChainReady(i)
        /\ Apply(IF ClosedBranch(o)
                 THEN IF o.onClosed = "resolve"
                      THEN Resolve(F, i, "void", <<>>)
                      ELSE Reject(F, i, "AlreadyClosed", <<>>)
                 ELSE [F EXCEPT !.ops[i].st = "running", !.ops[i].pc = "write"])
        /\ UNCHANGED << accepted, calls >>
        /\ UNCHANGED Others

\* await this.write(uint8(cmd)); for (const p of payload) await this.write(p)
\* A write on a closed socket calls back with an error.
WriteFragment ==
  \E i \in DOMAIN ops :
    LET o == ops[i]
        frags == << uint8(o.cmd) >> \o o.payload
    IN  /\ Running(i, {"write"})
        /\ IF sockClosed
           THEN /\ Apply(Reject(Cur, i, "WriteFailed", <<>>))
                /\ UNCHANGED << c2e, wire >>
           ELSE /\ c2e' = c2e \o frags[o.k + 1]
                /\ wire' = IF o.k = 0 THEN Append(wire, i) ELSE wire
                /\ Apply([Cur EXCEPT
                     !.ops[i].k = o.k + 1,
                     !.ops[i].frame = IF o.k = 0 THEN Len(wire) + 1 ELSE @,
                     !.ops[i].pc = IF o.k + 1 = Len(frags) THEN "status"
                                   ELSE "write"])
        /\ UNCHANGED << hasSentExit, sockClosed, closeEvents, flowing, delivered,
                        polls, e2c, ep, argv, hs, accepted, calls >>

\* A reader that resolves on the status alone and leaves the body unread.
readCbNone(F, i) == Resolve(F, i, "void", <<>>)

\* The response reader of each command, entered after a zero status.
readCb(F, i) ==
  LET cmd == F.ops[i].cmd
  IN  CASE cmd \in {GET_ARGS, GET_ENV} -> [F EXCEPT !.ops[i].pc = "count"]
        [] cmd = GET_CWD -> [F EXCEPT !.ops[i].pc = "strlen", !.ops[i].k = 1]
        [] cmd = READ_STDIN -> [F EXCEPT !.ops[i].pc = "avail"]
        [] cmd = IS_STDIN_CONNECTED -> [F EXCEPT !.ops[i].pc = "flag"]
        [] OTHER -> Resolve(F, i, "void", <<>>)

\* The first `need` bytes waiting hold a byte of a response to another frame.
Foreign(i, need) == \E j \in 1..need : e2c[j].f # ops[i].frame

\* `Unknown error ${statusCode} from proxy`, used when the message is empty.
UnknownError == << 85 >>

\* A failure that throws on the status and leaves the message unread.
FailedUnread(F, i, statusCode) == Reject(F, i, "Protocol", UnknownError)

\* if (statusCode !== 0) { const errorMsg = await this.readLengthPrefixedString()
Failed(F, i, statusCode) ==
  [F EXCEPT !.ops[i].pc = "errlen", !.ops[i].n = statusCode]

\* A latch that any answered command sets.
LatchOnAnyCommand(sent, cmd) == TRUE

\* this.hasSentExit ||= cmd === EXIT
Latch(sent, cmd) == sent \/ cmd = EXIT

\* const statusCode = await this.readInt32LE(); the exit latch; readCb().
ReadStatus ==
  \E i \in DOMAIN ops :
    LET statusCode == readInt32LE(Bytes(Take(e2c, 4)))
        F == [Cur EXCEPT !.ops[i].sfrom = << e2c[1].f, e2c[1].o >>,
                         !.ops[i].mix = Foreign(i, 4),
                         !.ops[i].status = statusCode]
    IN  /\ Running(i, {"status"})
        /\ CanRead(4)
        /\ e2c' = Drop(e2c, 4)
        /\ IF statusCode # 0
           THEN /\ Apply(Failed(F, i, statusCode))
                /\ UNCHANGED hasSentExit
           ELSE /\ hasSentExit' = Latch(hasSentExit, ops[i].cmd)
                /\ Apply(readCb(F, i))
        /\ UNCHANGED << sockClosed, closeEvents, flowing, delivered, polls, c2e,
                        wire, ep, argv, hs, accepted, calls >>

\* readString: this.read(length, (buf) => buf.toString('utf8'))
readString(buf) == Utf8Decode(buf)

\* const errorMsg = await this.readLengthPrefixedString(); throw new Error(...)
ReadError ==
  \E i \in DOMAIN ops :
    LET o == ops[i]
        need == IF o.pc = "errlen" THEN 4 ELSE o.n
        got == Bytes(Take(e2c, need))
        F == [Cur EXCEPT !.ops[i].mix = @ \/ Foreign(i, need)]
    IN  /\ Running(i, {"errlen", "errmsg"})
        /\ CanRead(need)
        /\ e2c' = Drop(e2c, need)
        /\ Apply(IF o.pc = "errlen"
                 THEN [F EXCEPT !.ops[i].pc = "errmsg",
                                !.ops[i].n = readUInt32LE(got)]
                 ELSE Reject(F, i, "Protocol",
                             IF got = <<>> THEN UnknownError
                             ELSE readString(got)))
        /\ UNCHANGED << hasSentExit, sockClosed, closeEvents, flowing, delivered,
                        polls, c2e, wire, ep, argv, hs, accepted, calls >>

\* envVar.indexOf('='), counted from 0; -1 when there is none.
indexOfEq(envVar) ==
  IF \E p \in DOMAIN envVar : envVar[p] = 61
  THEN (CHOOSE p \in DOMAIN envVar :
          envVar[p] = 61 /\ \A q \in 1..(p - 1) : envVar[q] # 61) - 1
  ELSE -1

\* "__proto__", the one key whose assignment to a plain object goes to the
\* setter of Object.prototype, which ignores a string.
ProtoKey == << 95, 95, 112, 114, 111, 116, 111, 95, 95 >>

\* env[key] = value on the object literal {}: an own property is replaced
\* where it stands, a new one is added behind the others.  The object is kept
\* as its own properties << key, value >> in insertion order.
envAssign(env, key, value) ==
  CASE key = ProtoKey -> env
    [] \E p \in DOMAIN env : env[p][1] = key ->
         [p \in DOMAIN env |-> IF env[p][1] = key THEN << key, value >>
                               ELSE env[p]]
    [] OTHER -> Append(env, << key, value >>)

\* The body of getEnv's loop for one transported entry.
envEntry(env, envVar) ==
  LET eqIndex == indexOfEq(envVar)
  IN  IF eqIndex # -1
      THEN envAssign(env, SubSeq(envVar, 1, eqIndex),
                     SubSeq(envVar, eqIndex + 2, Len(envVar)))
      ELSE env

\* A conversion that looks at the lowest byte of the number alone.
BooleanOfLowByte(n) == n % 256 # 0

\* .then(Boolean) of isStdinConnected: false for 0, true for any other number.
Boolean(n) == n # 0

\* The reads of the response readers: getArgs/getEnv (count, then count
\* length-prefixed strings), getCwd (one string), readStdin (available, then
\* the data), isStdinConnected (one i32).
ReadBody ==
  \E i \in DOMAIN ops :
    LET o == ops[i]
        need == IF o.pc \in {"str", "data"} THEN o.n ELSE 4
        got == Bytes(Take(e2c, need))
        F == [Cur EXCEPT !.ops[i].mix = @ \/ Foreign(i, need)]
    IN  /\ Running(i, {"count", "strlen", "str", "avail", "data", "flag"})
        /\ CanRead(need)
        /\ e2c' = Drop(e2c, need)
        /\ Apply(
             CASE o.pc = "count" ->
                    IF readUInt32LE(got) = 0
                    THEN Resolve(F, i, IF o.cmd = GET_ENV THEN "env" ELSE "list",
                                 <<>>)
                    ELSE [F EXCEPT !.ops[i].pc = "strlen",
                                     !.ops[i].k = readUInt32LE(got)]
               [] o.pc = "strlen" ->
                    [F EXCEPT !.ops[i].pc = "str", !.ops[i].n = readUInt32LE(got)]
               [] o.pc = "str" ->
                    LET acc == IF o.cmd = GET_ENV
                               THEN envEntry(o.acc, readString(got))
                               ELSE Append(o.acc, readString(got))
                    IN  IF o.k = 1
                        THEN Resolve(F, i,
                                     CASE o.cmd = GET_CWD -> "string"
                                       [] o.cmd = GET_ENV -> "env"
                                       [] OTHER -> "list",
                                     acc)
                        ELSE [F EXCEPT !.ops[i].pc = "strlen",
                                         !.ops[i].k = o.k - 1, !.ops[i].acc = acc]
               [] o.pc = "avail" ->
                    IF readInt32LE(got) <= 0
                    THEN Resolve(F, i,
                                 IF readInt32LE(got) = 0 THEN "data" ELSE "null",
                                 <<>>)
                    ELSE [F EXCEPT !.ops[i].pc = "data",
                                     !.ops[i].n = readInt32LE(got)]
               [] o.pc = "data" -> Resolve(F, i, "data", got)
               [] o.pc = "flag" ->
                    Resolve(F, i, IF Boolean(readInt32LE(got)) THEN "true"
                                  ELSE "false", <<>>))
        /\ UNCHANGED << hasSentExit, sockClosed, closeEvents, flowing, delivered,
                        polls, c2e, wire, ep, argv, hs, accepted, calls >>

\* ------------------------------------------------------- the input facade
\* The facade has one readStdin outstanding at most: the latest one is its.
LastStdinOp ==
  CHOOSE i \in DOMAIN ops :
    /\ ops[i].src = "stdin"
    /\ \A j \in DOMAIN ops : ops[j].src = "stdin" => j <= i

\* A reaction that treats null as it treats an empty buffer.
AfterReadStdinNeverEnds(o) ==
  IF o.acc = <<>> /\ flowing THEN "timer" ELSE "idle"

\* A reaction that pushes the empty buffer without waiting.
AfterReadStdinNoWait(o) == IF o.res = "null" THEN "ended" ELSE "idle"

\* Where the reaction of _read to the resolved readStdin leaves the facade:
\* while (data && data.length === 0 && this.readableFlowing) waits on the
\* timer; otherwise push(data), which ends the stream for null and lets
\* Readable call _read again for anything else.
AfterReadStdin(o) ==
  CASE o.res = "null" -> "ended"
    [] o.acc = <<>> /\ flowing -> "timer"
    [] OTHER -> "idle"

\* A push that keeps the first chunk only.
pushFirst(chunk) == IF delivered = <<>> THEN chunk ELSE delivered

\* this.push(data): what the consumer has been given so far, with the chunk
\* behind it; a destroyed stream takes nothing.
push(chunk) == IF destroyed["stdin"] THEN delivered ELSE delivered \o chunk

\* ReadStream._read's reaction to readStdin: null ends the stream, data is
\* pushed, an empty buffer starts the polling timer while the stream flows,
\* and a rejection destroys the facade.
StdinReact ==
  LET o == ops[LastStdinOp]
      F == [Cur EXCEPT !.ops[LastStdinOp].flow =
                         IF flowing THEN "flowing" ELSE "paused"]
  IN  /\ stdinSt = "react"
      /\ IF o.st = "rejected"
         THEN /\ Apply(DestroyFacade([F EXCEPT !.stdinSt = "idle"], "stdin"))
              /\ UNCHANGED delivered
         ELSE /\ Apply([F EXCEPT !.stdinSt = AfterReadStdin(o)])
              /\ delivered' = push(o.acc)
      /\ UNCHANGED << hasSentExit, sockClosed, closeEvents, flowing, polls, c2e,
                      e2c, wire, ep, argv, hs, accepted, calls >>

\* The polling timer of _read: after pollingInterval, readStdin again unless
\* the stream stopped flowing.
PollTimer ==
  /\ stdinSt = "timer"
  /\ IF flowing
     THEN /\ polls < MaxPolls
          /\ polls' = polls + 1
          /\ Apply(readStdin([Cur EXCEPT !.stdinSt = "reading"], 0))
     ELSE /\ Apply([Cur EXCEPT !.stdinSt = "stalled"])
          /\ UNCHANGED polls
  /\ UNCHANGED << hasSentExit, sockClosed, closeEvents, flowing, delivered, c2e,
                  e2c, wire, ep, argv, hs, accepted, calls >>

\* stdin.pause(): readableFlowing becomes false.
Pause ==
  /\ flowing
  /\ flowing' = FALSE
  /\ UNCHANGED << ops, hasSentExit, sockClosed, closeEvents, destroyed, writing,
                  wbuf, accepted, stdinSt, delivered, polls, calls, c2e, e2c,
                  wire, ep, argv, hs >>

\* stdin.resume(): readableFlowing becomes true.  Readable calls _read from
\* here only when no _read is awaiting its push (ReadCall).
Resume ==
  /\ ~flowing
  /\ flowing' = TRUE
  /\ UNCHANGED << ops, hasSentExit, sockClosed, closeEvents, destroyed, writing,
                  wbuf, accepted, stdinSt, delivered, polls, calls, c2e, e2c,
                  wire, ep, argv, hs >>

\* ------------------------------------------------------------ socket close
\* The bytes the pending read of ops[i] waits for.
Need(o) == IF o.pc \in {"errmsg", "str", "data"} THEN o.n ELSE 4

Reading(o) == o.st = "running" /\ o.pc # "write"

\* A readSocket without its 'close' listener: the pending read stays pending.
AbortReadsNone(F, i, err) == F

\* readSocket's onClose / onError: the pending read rejects.
RECURSIVE AbortReads(_, _, _)
AbortReads(F, i, err) ==
  IF i > Len(ops) THEN F
  ELSE AbortReads(IF Reading(ops[i]) THEN Reject(F, i, err, <<>>) ELSE F,
                  i + 1, err)

\* Where each unsettled operation stands when the socket closes.
AtClose(F) ==
  [F EXCEPT !.ops =
     [j \in DOMAIN F.ops |->
        CASE F.ops[j].st = "running" -> [F.ops[j] EXCEPT !.atClose = "inflight"]
          [] F.ops[j].st = "pending" -> [F.ops[j] EXCEPT !.atClose = "queued"]
          [] OTHER -> F.ops[j]]]

\* The socket's 'close' event: handleClose (registered first) destroys the
\* facades and emits 'close', then the pending readSocket rejects.
CloseSocket(err) ==
  /\ ~sockClosed
  /\ sockClosed' = TRUE
  /\ closeEvents' = closeEvents + 1
  /\ e2c' = <<>>
  /\ Apply(AbortReads(destroyIfNecessary(AtClose(Cur)), 1, err))
  /\ UNCHANGED << hasSentExit, flowing, delivered, polls, c2e, wire, ep, argv,
                  hs, accepted, calls >>

\* The endpoint closed its socket: end-of-stream reaches the connection once
\* the bytes before it are consumed (a pending read takes a short rest).
PeerClose ==
  /\ ep.st = "closed"
  /\ IF e2c = <<>> THEN TRUE
     ELSE \E i \in DOMAIN ops : Reading(ops[i]) /\ Need(ops[i]) > Len(e2c)
  /\ CloseSocket("SocketClosed")

\* The socket is destroyed locally or by a transport failure, at any time.
SocketDestroyed == CloseSocket("SocketClosed")

\* --------------------------------------------------------------- the acceptor
\* What no step of the handshake changes.
Untouched ==
  << ops, hasSentExit, closeEvents, destroyed, writing, wbuf, accepted, stdinSt,
     flowing, delivered, polls, calls, c2e, wire, ep, argv >>

\* A tryRead that resolves with whatever the socket holds.
tryReadFirstChunk(buf, length) ==
  [ done |-> TRUE, data |-> Bytes(Take(buf, Min(Len(buf), length))),
    rest |-> Drop(buf, Min(Len(buf), length)) ]

\* A tryRead that takes all the socket holds and keeps the first `length`.
tryReadAll(buf, length) ==
  IF Len(buf) >= length
  THEN [ done |-> TRUE, data |-> Bytes(Take(buf, length)), rest |-> <<>> ]
  ELSE [ done |-> FALSE, data |-> <<>>, rest |-> buf ]

\* readSocket's tryRead on 'readable': socket.read(remaining) gives null
\* until `remaining` bytes are buffered, then exactly those.
tryRead(buf, length) ==
  IF Len(buf) >= length
  THEN [ done |-> TRUE, data |-> Bytes(Take(buf, length)),
         rest |-> Drop(buf, length) ]
  ELSE [ done |-> FALSE, data |-> <<>>, rest |-> buf ]

\* A catch that leaves the socket as it is.
HandshakeFailedSilently(h, why) == [h EXCEPT !.st = "rejected", !.why = why]

\* .catch((e) => socket.end())
HandshakeFailed(h, why) ==
  [h EXCEPT !.st = "rejected", !.why = why, !.ended = TRUE]

\* .then((token) => listener(new ProcessProxyConnection(socket, token)))
Admit(h) == [h EXCEPT !.st = "accepted", !.conn = @ + 1, !.listener = @ + 1]

\* An acceptor that calls the validator and admits without its answer.
ensureValidHandshakeUnawaited(h, buffer) ==
  LET g == [h EXCEPT !.got = buffer]
  IN  IF protocolHeader(buffer) # HANDSHAKE_PROTOCOL
      THEN HandshakeFailed(g, "header")
      ELSE Admit([g EXCEPT !.token = ExtractToken(buffer),
                           !.asked = IF h.validator = "none" THEN @ ELSE @ + 1])

\* ensureValidHandshake from the read on: the header, the token, the call of
\* the validator; without a validator the token is returned at once.
ensureValidHandshake(h, buffer) ==
  LET g == [h EXCEPT !.got = buffer]
  IN  IF protocolHeader(buffer) # HANDSHAKE_PROTOCOL
      THEN HandshakeFailed(g, "header")
      ELSE IF h.validator = "none"
           THEN Admit([g EXCEPT !.token = ExtractToken(buffer)])
           ELSE [g EXCEPT !.token = ExtractToken(buffer), !.st = "validating",
                          !.asked = @ + 1]

\* A chunk of the peer's bytes reaches the socket.  While readSocket waits,
\* 'readable' runs tryRead, and a complete read runs ensureValidHandshake up
\* to its next await before any timer can fire.
Arrive ==
  \E n \in 1..(Len(hs.sent) - hs.arrived) :
    LET chunk == [j \in 1..n |->
                   [b |-> hs.sent[hs.arrived + j], f |-> 0,
                    o |-> hs.arrived + j - 1]]
        r == tryRead(e2c \o chunk, HANDSHAKE_LENGTH)
        h == [hs EXCEPT !.arrived = @ + n,
                        !.parts = IF hs.st # "reading" \/ ~r.done THEN @
                                  ELSE IF e2c = <<>> THEN 1 ELSE 2,
                        !.extra = IF hs.st # "reading" \/ ~r.done THEN @
                                  ELSE Len(r.rest)]
    IN  /\ ~sockClosed
        /\ hs.st \in {"reading", "validating", "accepted"}
        /\ IF hs.st = "reading" /\ r.done
           THEN /\ e2c' = r.rest
                /\ hs' = ensureValidHandshake(h, r.data)
           ELSE /\ e2c' = e2c \o chunk
                /\ hs' = h
        /\ UNCHANGED sockClosed
        /\ UNCHANGED Untouched

\* A deadline that covers the validator as well as the read.
onAbortWhilePending(h) ==
  IF h.st \in { "reading", "validating" }
  THEN HandshakeFailed([h EXCEPT !.expired = h.st], "timeout")
  ELSE [h EXCEPT !.expired = h.st]

\* The signal's 'abort': onAbort is a listener from readSocket's start to its
\* cleanup(), which runs when the read resolves or rejects; it rejects the
\* read through onError.
onAbort(h) ==
  IF h.st = "reading"
  THEN HandshakeFailed([h EXCEPT !.expired = h.st], "timeout")
  ELSE [h EXCEPT !.expired = h.st]

\* The timer of AbortSignal.timeout(timeoutMs) fires, once.
HandshakeTimeout ==
  /\ hs.expired = "none"
  /\ hs' = onAbort(hs)
  /\ UNCHANGED << e2c, sockClosed >>
  /\ UNCHANGED Untouched

\* The socket closes, after an error or not, before a Connection exists:
\* a waiting readSocket rejects; nothing else listens.
HandshakeClose ==
  \E why \in {"closed", "error"} :
    /\ ~sockClosed
    /\ hs.conn = 0
    /\ sockClosed' = TRUE
    /\ e2c' = <<>>
    /\ hs' = IF hs.st = "reading" THEN HandshakeFailed(hs, why) ELSE hs
    /\ UNCHANGED Untouched

\* The promise of validateConnection(token) settles.
ValidatorSettles ==
  /\ hs.st = "validating"
  /\ hs' = CASE hs.validator = "throw" ->
                  HandshakeFailed([hs EXCEPT !.verdict = "threw"], "threw")
             [] hs.token = Expected -> Admit([hs EXCEPT !.verdict = "true"])
             [] OTHER ->
                  HandshakeFailed([hs EXCEPT !.verdict = "false"], "validation")
  /\ UNCHANGED << e2c, sockClosed >>
  /\ UNCHANGED Untouched

\* The consumer's callback has a Connection; it sends one command, whose
\* status is the connection's next read, and the socket may close.
Connected == hs.conn = 1

ListenerCalls == Connected /\ calls = 0 /\ getArgs

ConnectionInvokes == Connected /\ HandleInvoke

ConnectionWrites == Connected /\ WriteFragment

ConnectionReads == Connected /\ ReadStatus

ConnectionCloses == Connected /\ SocketDestroyed

\* ------------------------------------------------------- the native endpoint
KnownCommands ==
  { GET_ARGS, READ_STDIN, WRITE_STDOUT, WRITE_STDERR, GET_CWD, GET_ENV, EXIT,
    CLOSE_STDIN, CLOSE_STDOUT, CLOSE_STDERR, IS_STDIN_CONNECTED }

Controller ==
  << ops, hasSentExit, sockClosed, closeEvents, destroyed, writing, wbuf,
     accepted, stdinSt, flowing, delivered, polls, calls, wire, hs >>

\* Response bytes carry the frame they answer and their offset in the response.
Tag(resp, frame) ==
  [j \in 1..Len(resp) |-> [b |-> resp[j], f |-> frame, o |-> j - 1]]

send_success == int32(0)

send_error(error_msg) == int32(-1) \o LengthPrefixed(error_msg)

\* A switch whose default case goes on with the loop.
UnknownCommandIgnored(e) == e

\* default: handler_result = -1, so the loop breaks; close_socket; return 0.
UnknownCommand(e) == [e EXCEPT !.st = "closed", !.exitCode = 0, !.why = "opcode"]

\* The command loop's recv of one opcode byte and its switch.
RecvOpcode ==
  /\ ep.st = "opcode"
  /\ c2e # <<>>
  /\ c2e' = Tail(c2e)
  /\ ep' = [ (IF Head(c2e) \in KnownCommands
              THEN [ep EXCEPT !.st = "cmd", !.cmd = Head(c2e), !.frames = @ + 1]
              ELSE UnknownCommand([ep EXCEPT !.cmd = Head(c2e)]))
            EXCEPT !.rcvd = Append(@, Head(c2e)) ]
  /\ UNCHANGED << e2c, argv >>
  /\ UNCHANGED Controller

\* A handler that has read `n` payload bytes answers `resp` and returns.
Respond(n, resp, ep2) ==
  /\ c2e' = Drop(c2e, n)
  /\ e2c' = IF sockClosed THEN e2c ELSE e2c \o Tag(resp, ep.frames)
  /\ ep' = [ep2 EXCEPT !.rcvd = @ \o Take(c2e, n)]
  /\ UNCHANGED Controller

Handling(cmd) == ep.st = "cmd" /\ ep.cmd = cmd

Done(e) == [e EXCEPT !.st = "opcode"]

handle_get_args ==
  \E args \in (IF argv = NoArgv THEN Argvs ELSE {argv}) :
    /\ Handling(GET_ARGS)
    /\ argv' = args
    /\ Respond(0, send_success \o uint32(Len(args)) \o LengthPrefixedAll(args),
               Done(ep))

\* The child's standard input as the endpoint finds it: bytes followed by
\* end-of-stream, or nothing yet from a writer that stays open.
StdinSeen == IF ep.stdinBuf = Unobserved THEN StdinInputs ELSE { ep.stdinBuf }

Observed(input) ==
  IF ep.stdinBuf = Unobserved
  THEN [ep EXCEPT !.stdinBuf = input, !.stdinEof = (input # <<>>)]
  ELSE ep

\* A read whose end-of-file is reported as "nothing yet".
BytesReadEofAsNone(e, max_bytes, failed) ==
  CASE failed \/ ~e.open["stdin"] -> -1
    [] e.stdinBuf # <<>> -> Min(Len(e.stdinBuf), max_bytes)
    [] OTHER -> 0

\* bytes_read after read(STDIN_FILENO, buffer, max_bytes) on the non-blocking
\* input: -1 for a failure other than EAGAIN (EBADF on a closed descriptor
\* among them) and for end-of-file, the count for data, 0 for EAGAIN.
BytesRead(e, max_bytes, failed) ==
  CASE failed \/ ~e.open["stdin"] -> -1
    [] e.stdinBuf # <<>> -> Min(Len(e.stdinBuf), max_bytes)
    [] e.stdinEof -> -1
    [] OTHER -> 0

\* handle_read_stdin: max_bytes <= 0 is answered with 0 at once; a failed
\* malloc(max_bytes) with an error; otherwise the input is made non-blocking,
\* read once and given its flags back, and the count and the data go out.
handle_read_stdin ==
  \E input \in StdinSeen, allocated \in BOOLEAN, failed \in BOOLEAN :
    LET e == Observed(input)
        max_bytes == readInt32LE(Take(c2e, 4))
        reads == max_bytes > 0 /\ allocated
        bytes_read == IF reads THEN BytesRead(e, max_bytes, failed) ELSE 0
        flags == e.nonblock
    IN  /\ Handling(READ_STDIN)
        /\ UNCHANGED argv
        /\ Len(c2e) >= 4
        /\ (max_bytes <= 0 \/ ~ep.nomem) => allocated
        /\ (~reads \/ ~ep.flaky) => ~failed
        /\ Respond(4,
             IF max_bytes > 0 /\ ~allocated THEN send_error(ErrorMessage)
             ELSE send_success \o int32(bytes_read)
                    \o (IF bytes_read > 0 THEN Take(e.stdinBuf, bytes_read)
                        ELSE <<>>),
             IF bytes_read > 0
             THEN [Done(e) EXCEPT !.stdinBuf = Drop(@, bytes_read),
                                  !.nonblock = flags]
             ELSE [Done(e) EXCEPT !.nonblock = flags])

\* A handler without the early return for a length of 0, whose malloc(0)
\* returns NULL.
WriteStatusNoEmpty(len, allocated, buffered) ==
  IF len > 0 /\ allocated /\ buffered THEN send_success
  ELSE send_error(ErrorMessage)

\* The response of handle_write_stdout / handle_write_stderr: success for a
\* length of 0 and when fwrite reported len bytes written.
WriteStatus(len, allocated, buffered) ==
  IF allocated /\ (len = 0 \/ buffered) THEN send_success
  ELSE send_error(ErrorMessage)

\* handle_write_stdout / handle_write_stderr.  A length of 0 is answered at
\* once.  When malloc(len) fails the error is sent and the handler returns
\* with the data unread.  On a closed descriptor, or when the output has no
\* room, fwrite reports the full count when the bytes fit stdio's buffer (the
\* failing fflush is not checked) and a short count otherwise.
handle_write ==
  \E f \in OutFacades, allocated \in BOOLEAN, buffered \in BOOLEAN :
    LET len == readUInt32LE(Take(c2e, 4))
        data == SubSeq(c2e, 5, 4 + len)
    IN  /\ Handling(WriteCmd(f))
        /\ UNCHANGED argv
        /\ Len(c2e) >= 4
        /\ (len = 0 \/ ~ep.nomem) => allocated
        /\ allocated => Len(c2e) >= 4 + len
        /\ (len = 0 \/ ~allocated \/ (ep.open[f] /\ ~ep.full)) => buffered
        /\ Respond(IF allocated THEN 4 + len ELSE 4,
             WriteStatus(len, allocated, buffered),
             IF len > 0 /\ allocated /\ ep.open[f] /\ buffered
             THEN [Done(ep) EXCEPT !.out[f] = @ \o data]
             ELSE Done(ep))

handle_get_cwd ==
  /\ UNCHANGED argv
  /\ Handling(GET_CWD)
  /\ Respond(0, send_success \o LengthPrefixed(Cwd), Done(ep))

handle_get_env ==
  /\ UNCHANGED argv
  /\ Handling(GET_ENV)
  /\ Respond(0, send_success \o uint32(Len(ep.environ))
                  \o LengthPrefixedAll(ep.environ),
             Done(ep))

\* An EXIT handler that sends nothing before it closes the socket.
ExitResponseNone == <<>>

\* send_success(sock) of handle_exit_cmd, before close_socket and exit.
ExitResponse == send_success

\* An exit status of seven bits.
ExitStatusSevenBits(posix, exit_code) == exit_code % 128

\* exit(exit_code) as the parent of the process sees it: the low eight bits
\* on POSIX, all 32 bits on Windows (kept here as the signed number).
ExitStatus(posix, exit_code) == IF posix THEN exit_code % 256 ELSE exit_code

\* handle_exit_cmd: the status goes out, then the socket is closed and the
\* process exits with the code.
handle_exit_cmd ==
  /\ UNCHANGED argv
  /\ Handling(EXIT)
  /\ Len(c2e) >= 4
  /\ Respond(4, ExitResponse,
             [ep EXCEPT !.st = "closed", !.why = "exit",
                        !.exitCode =
                          ExitStatus(ep.posix, readInt32LE(Take(c2e, 4)))])

\* handle_close_stdin / _stdout / _stderr: close() fails on a closed descriptor.
\* A close handler that does not test the result of close().
close_descriptor_unchecked(f) == send_success

\* close(fd) < 0 ? send_error(get_error_message()) : send_success
close_descriptor(f) ==
  IF ep.open[f] THEN send_success ELSE send_error(ErrorMessage)

handle_close ==
  \E f \in Facades :
    /\ Handling(CloseCmd(f))
    /\ UNCHANGED argv
    /\ Respond(0, close_descriptor(f), [Done(ep) EXCEPT !.open[f] = FALSE])

\* Input is attached and either not at end-of-stream or still holds buffered
\* bytes.
StdinConnected(e) == e.open["stdin"] /\ (~e.stdinEof \/ e.stdinBuf # <<>>)

\* IS_STDIN_CONNECTED: nonzero while input is open and not at end-of-stream or
\* still holds buffered bytes, zero otherwise.
handle_is_stdin_connected ==
  \E input \in StdinSeen :
    LET e == Observed(input)
    IN  /\ UNCHANGED argv
        /\ Handling(IS_STDIN_CONNECTED)
        /\ Respond(0,
             send_success \o int32(IF StdinConnected(e) THEN e.yes ELSE 0),
             [Done(e) EXCEPT !.asked = [frame |-> ep.frames,
                                        connected |-> StdinConnected(e),
                                        eof |-> e.stdinEof]])

\* The endpoint is blocked in recv: no opcode byte, or a payload not yet whole.
EndpointBlocked ==
  CASE ep.st = "opcode" -> c2e = <<>>
    [] ep.st = "closed" -> FALSE
    [] ep.cmd \in {READ_STDIN, EXIT} -> Len(c2e) < 4
    [] ep.cmd \in {WRITE_STDOUT, WRITE_STDERR} ->
         IF Len(c2e) < 4 THEN TRUE
         ELSE Len(c2e) < 4 + readUInt32LE(Take(c2e, 4))
    [] OTHER -> FALSE

\* recv returns 0 or fails once the connection's socket is closed: the loop
\* ends, the socket is closed and main returns 0.
RecvClosed ==
  /\ sockClosed
  /\ EndpointBlocked
  /\ ep' = [ep EXCEPT !.st = "closed", !.exitCode = 0, !.why = "recv"]
  /\ UNCHANGED << c2e, e2c, argv >>
  /\ UNCHANGED Controller

\* ------------------------------------------------- the endpoint's start
\* The value of a run of decimal digits at the head of s, behind acc.
RECURSIVE Digits(_, _)
Digits(s, acc) ==
  IF s = <<>> \/ Head(s) \notin 48..57 THEN acc
  ELSE Digits(Tail(s), 10 * acc + (Head(s) - 48))

RECURSIVE atoi(_)
\* atoi: white space is skipped, a sign is taken, the digits that follow are
\* read; anything behind them is ignored and no digit at all gives 0.
atoi(s) ==
  CASE s = <<>> -> 0
    [] Head(s) \in {32} \cup 9..13 -> atoi(Tail(s))
    [] Head(s) = 45 -> 0 - Digits(Tail(s), 0)
    [] Head(s) = 43 -> Digits(Tail(s), 0)
    [] OTHER -> Digits(s, 0)

\* Values of PROCESS_PROXY_PORT: unset, "", "0", "abc", "-5", "65536",
\* "65535" and "80x".
PortStrs ==
  { Unset, <<>>, << 48 >>, << 97, 98, 99 >>, << 45, 53 >>,
    << 54, 53, 53, 51, 54 >>, ListenPort, << 56, 48, 120 >> }

\* What send(g_socket, handshake, 146, 0) may return: all of it, a part, -1.
SendResults == { HANDSHAKE_LENGTH, HANDSHAKE_PROTOCOL_LENGTH, -1 }

\* main up to the command loop: the port from the environment, socket(),
\* connect(), the handshake.  Each failure prints and returns 1.
main ==
  \E created \in BOOLEAN, connected \in BOOLEAN, sent \in SendResults :
    LET port == atoi(ep.port)
        failed(why) == [ep EXCEPT !.st = "closed", !.exitCode = 1, !.why = why]
        reaches == ep.port # Unset /\ port > 0 /\ port <= 65535
                     /\ created /\ connected
        n == IF reaches /\ sent > 0 THEN sent ELSE 0
    IN  /\ ep.st = "start"
        /\ ep' = CASE ep.port = Unset -> failed("port")
                   [] port <= 0 \/ port > 65535 -> failed("port")
                   [] ~created -> failed("socket")
                   [] ~connected -> failed("connect")
                   [] sent # HANDSHAKE_LENGTH -> failed("handshake")
                   [] OTHER -> [ep EXCEPT !.st = "opcode"]
        /\ e2c' = e2c \o [j \in 1..n |-> [b |-> hs.sent[j], f |-> 0, o |-> j - 1]]
        /\ hs' = [hs EXCEPT !.arrived = n]
        /\ UNCHANGED << ops, hasSentExit, sockClosed, closeEvents, destroyed,
                        writing, wbuf, accepted, stdinSt, flowing, delivered,
                        polls, calls, c2e, wire, argv >>

\* The process has a connected socket.
HasSocket == ep.st # "start" /\ ep.why \notin { "port", "socket", "connect" }

\* Exit codes a peer asks for: 0, 99, 256 and -1.
ExitCodes == { 0, 99, 256, -1 }

\* What the peer of the endpoint's socket sends at a time: whole frames, the
\* head of an EXIT frame, a byte that is no opcode, alone and with a frame
\* behind it.
RawFrames ==
  { << GET_CWD >>, << CLOSE_STDOUT >>, << 8 >>, << 8, GET_CWD >>,
    << EXIT, 3, 0 >>,
    << WRITE_STDOUT >> \o uint32(1) \o << GET_CWD >> }
    \cup { << EXIT >> \o int32(code) : code \in ExitCodes }

\* The most the peer sends.
MaxSends == 2

\* READ_STDIN frames asking for 0, 2, 16384 and -1 bytes, and a CLOSE_STDIN.
ReadFrames ==
  { << READ_STDIN >> \o int32(max_bytes) : max_bytes \in { 0, 2, ReadSize, -1 } }
    \cup { << CLOSE_STDIN >> }

\* The peer writes to its socket.
RawSendOf(frames) ==
  \E frame \in frames :
    /\ HasSocket
    /\ ~sockClosed
    /\ calls < MaxSends
    /\ calls' = calls + 1
    /\ c2e' = c2e \o frame
    /\ UNCHANGED << ops, hasSentExit, sockClosed, closeEvents, destroyed,
                    writing, wbuf, accepted, stdinSt, flowing, delivered, polls,
                    e2c, wire, ep, argv, hs >>

RawSend == RawSendOf(RawFrames)

RawRead == RawSendOf(ReadFrames)

\* What a peer of the connection's socket may answer a command with: success,
\* an error with a message, a nonzero status with an empty message.
RawAnswers ==
  { send_success, send_error(ErrorMessage), int32(1) \o LengthPrefixed(<<>>) }

\* The peer writes an answer once the connection has taken the one before.
RawAnswer ==
  \E resp \in RawAnswers :
    /\ ~sockClosed
    /\ e2c = <<>>
    /\ e2c' = Tag(resp, 0)
    /\ UNCHANGED << ops, hasSentExit, sockClosed, closeEvents, destroyed,
                    writing, wbuf, accepted, stdinSt, flowing, delivered, polls,
                    calls, c2e, wire, ep, argv, hs >>

\* The peer closes its socket; what it has received stays with it.
RawClose ==
  /\ HasSocket
  /\ ~sockClosed
  /\ sockClosed' = TRUE
  /\ UNCHANGED << ops, hasSentExit, closeEvents, destroyed, writing, wbuf,
                  accepted, stdinSt, flowing, delivered, polls, calls, c2e, e2c,
                  wire, ep, argv, hs >>

\* ----------------------------------------------- the writer of the child's stdin
\* What the child's parent writes to the child's standard input before it
\* closes it: "test\n".
StdinText == << 116, 101, 115, 116, 10 >>

\* The parent writes the next bytes of the text, in pieces of any size.
StdinWrite ==
  \E n \in 1..(Len(StdinText) - ep.fed) :
    /\ ep.stdinBuf # Unobserved
    /\ ~ep.stdinEof
    /\ ep' = [ep EXCEPT !.stdinBuf = @ \o SubSeq(StdinText, ep.fed + 1, ep.fed + n),
                        !.fed = @ + n]
    /\ UNCHANGED << c2e, e2c, argv >>
    /\ UNCHANGED Controller

\* child.stdin.end(): the parent closes the child's standard input behind the
\* text.
StdinEnd ==
  /\ ep.stdinBuf # Unobserved
  /\ ~ep.stdinEof
  /\ ep.fed = Len(StdinText)
  /\ ep' = [ep EXCEPT !.stdinEof = TRUE]
  /\ UNCHANGED << c2e, e2c, argv >>
  /\ UNCHANGED Controller

\* ------------------------------------------------------------ specification
Next ==
  \/ getArgs
  \/ getEnv
  \/ getCwd
  \/ isStdinConnected
  \/ exit
  \/ CloseStreamCall
  \/ DestroyCall
  \/ WriteCall
  \/ ReadCall
  \/ HandleInvoke
  \/ WriteFragment
  \/ ReadStatus
  \/ ReadError
  \/ ReadBody
  \/ StdinReact
  \/ PollTimer
  \/ PeerClose
  \/ SocketDestroyed
  \/ RecvOpcode
  \/ handle_get_args
  \/ handle_read_stdin
  \/ handle_write
  \/ handle_get_cwd
  \/ handle_get_env
  \/ handle_exit_cmd
  \/ handle_close
  \/ handle_is_stdin_connected
  \/ RecvClosed

Spec == Init /\ [][Next]_vars

\* A connection whose consumer writes to the output facades and destroys
\* them, to an endpoint whose output has no room.
WInit ==
  /\ Constructed
  /\ ep = Endpoint(TRUE)
  /\ hs = Admitted

WNext ==
  \/ WriteCall
  \/ DestroyCall
  \/ HandleInvoke
  \/ WriteFragment
  \/ ReadStatus
  \/ ReadError
  \/ SocketDestroyed
  \/ RecvOpcode
  \/ handle_write
  \/ handle_close
  \/ RecvClosed

WSpec == WInit /\ [][WNext]_vars

\* A socket from its acceptance by the server on.
HInit ==
  /\ Constructed
  /\ ep = Endpoint(FALSE)
  /\ hs \in { Fresh(peer, validator) : peer \in Peers, validator \in Validators }

HNext ==
  \/ Arrive
  \/ HandshakeTimeout
  \/ HandshakeClose
  \/ ValidatorSettles
  \/ ListenerCalls
  \/ ConnectionInvokes
  \/ ConnectionWrites
  \/ ConnectionReads
  \/ ConnectionCloses

HSpec == HInit /\ [][HNext]_vars

\* A connection whose consumer takes stdin through 'data' and pauses and
\* resumes it, to an endpoint whose parent writes StdinText to it in pieces
\* and then closes it.
RInit ==
  /\ Constructed
  /\ ep = [Endpoint(FALSE) EXCEPT !.stdinBuf = <<>>]
  /\ hs = Admitted

RNext ==
  \/ ReadCall
  \/ Pause
  \/ Resume
  \/ HandleInvoke
  \/ WriteFragment
  \/ ReadStatus
  \/ ReadBody
  \/ StdinReact
  \/ PollTimer
  \/ RecvOpcode
  \/ handle_read_stdin
  \/ StdinWrite
  \/ StdinEnd

RSpec == RInit /\ [][RNext]_vars

\* A connection whose consumer writes to the output facades, to an endpoint
\* short of memory.
MInit ==
  /\ Constructed
  /\ ep = [Endpoint(FALSE) EXCEPT !.nomem = TRUE]
  /\ hs = Admitted

MNext ==
  \/ WriteCall
  \/ HandleInvoke
  \/ WriteFragment
  \/ ReadStatus
  \/ ReadError
  \/ PeerClose
  \/ RecvOpcode
  \/ handle_write
  \/ handle_exit_cmd

MSpec == MInit /\ [][MNext]_vars

\* A connection whose consumer writes buffers of several lengths to the
\* output facades, to an endpoint whose outputs are open and have room.
ONext ==
  \/ WriteBuffer
  \/ HandleInvoke
  \/ WriteFragment
  \/ ReadStatus
  \/ RecvOpcode
  \/ handle_write

OSpec == Init /\ [][ONext]_vars

\* Entries of an environment block: "K=V", "K=W", "A=b=c", "N", "=x" and
\* "__proto__=x".
EnvEntries ==
  { << 75, 61, 86 >>, << 75, 61, 87 >>, << 65, 61, 98, 61, 99 >>, << 78 >>,
    << 61, 120 >>, ProtoKey \o << 61, 120 >> }

\* A connection whose consumer calls getEnv, to an endpoint whose environment
\* holds up to two of the entries.
EInit ==
  /\ Constructed
  /\ \E environ \in {<<>>} \cup { << a >> : a \in EnvEntries }
                      \cup { << a, b >> : a \in EnvEntries, b \in EnvEntries } :
       ep = [Endpoint(FALSE) EXCEPT !.environ = environ]
  /\ hs = Admitted

ENext ==
  \/ getEnv
  \/ HandleInvoke
  \/ WriteFragment
  \/ ReadStatus
  \/ ReadBody
  \/ RecvOpcode
  \/ handle_get_env

ESpec == EInit /\ [][ENext]_vars

\* The endpoint from the start of its process, with any peer at the other
\* end of its socket.
NInit ==
  /\ Constructed
  /\ \E port \in PortStrs, posix \in BOOLEAN, nomem \in BOOLEAN :
       ep = [Endpoint(FALSE) EXCEPT !.st = "start", !.port = port,
                                    !.posix = posix, !.nomem = nomem]
  /\ \E token_env \in { Unset, Tok } :
       hs = Fresh([kind |-> "endpoint", env |-> token_env,
                   sent |-> BuildHandshake(token_env)], "none")

NNext ==
  \/ main
  \/ RawSend
  \/ RawClose
  \/ RecvOpcode
  \/ handle_write
  \/ handle_get_cwd
  \/ handle_exit_cmd
  \/ handle_close
  \/ RecvClosed

NSpec == NInit /\ [][NNext]_vars

\* A connection whose socket closes only when the endpoint closes its end.
QNext ==
  \/ getCwd
  \/ exit
  \/ DestroyCall
  \/ WriteCall
  \/ HandleInvoke
  \/ WriteFragment
  \/ ReadStatus
  \/ ReadBody
  \/ PeerClose
  \/ RecvOpcode
  \/ handle_write
  \/ handle_get_cwd
  \/ handle_exit_cmd
  \/ handle_close

QSpec == Init /\ [][QNext]_vars

\* The endpoint in its loop, asked for input by any peer, while the child's
\* parent writes StdinText to the child's input and closes it.
TInit ==
  /\ Constructed
  /\ \E nomem \in BOOLEAN, flaky \in BOOLEAN, nonblock \in BOOLEAN :
       ep = [Endpoint(FALSE) EXCEPT !.stdinBuf = <<>>, !.nomem = nomem,
                                    !.flaky = flaky, !.nonblock = nonblock]
  /\ hs = Admitted

TNext ==
  \/ RawRead
  \/ RecvOpcode
  \/ handle_read_stdin
  \/ handle_close
  \/ StdinWrite
  \/ StdinEnd

TSpec == TInit /\ [][TNext]_vars

\* A connection whose peer answers each command as it likes.
LNext ==
  \/ exit
  \/ WriteCall
  \/ HandleInvoke
  \/ WriteFragment
  \/ ReadStatus
  \/ ReadError
  \/ RawAnswer
  \/ SocketDestroyed

LSpec == Init /\ [][LNext]_vars

\* Nonzero values an endpoint may answer IS_STDIN_CONNECTED with.
Nonzero == { 1, -1, 256 }

\* A connection whose consumer asks whether stdin is connected and reads it,
\* to an endpoint whose parent writes StdinText to it and then closes it.
IInit ==
  /\ Constructed
  /\ \E v \in Nonzero : ep = [Endpoint(FALSE) EXCEPT !.stdinBuf = <<>>, !.yes = v]
  /\ hs = Admitted

INext ==
  \/ isStdinConnected
  \/ ReadCall
  \/ HandleInvoke
  \/ WriteFragment
  \/ ReadStatus
  \/ ReadBody
  \/ StdinReact
  \/ PollTimer
  \/ RecvOpcode
  \/ handle_is_stdin_connected
  \/ handle_read_stdin
  \/ StdinWrite
  \/ StdinEnd

ISpec == IInit /\ [][INext]_vars

\* ------------------------------------------------------------------- claims
IsSettled(o) == o.st \in Settled

Rejected(o, err) == o.st = "rejected" /\ o.err = err

CloseCmds == { CLOSE_STDIN, CLOSE_STDOUT, CLOSE_STDERR }

\* C1: at most one command is in flight.  An operation whose handleInvoke has
\* started, and so every operation whose opcode has been written to the
\* socket, finds every operation submitted before it settled; the opcodes on
\* the wire are those of the operations, in submission order.
C1_OneInFlight ==
  /\ \A i \in DOMAIN ops :
       (ops[i].st # "pending" \/ ops[i].frame > 0) =>
         \A j \in 1..(i - 1) : IsSettled(ops[j])
  /\ \A a \in DOMAIN wire : ops[wire[a]].frame = a
  /\ \A a, b \in DOMAIN wire : a < b => wire[a] < wire[b]

\* Two commands written one after the other, the second still in flight.
C1_Witness ==
  \E i \in DOMAIN ops :
    /\ i > 1
    /\ ops[i - 1].frame > 0
    /\ ops[i].frame > 0
    /\ ops[i].st = "running"

\* C2: operations settle in the order they were submitted, and the bytes an
\* operation reads as its response (the status first) are the response of
\* the endpoint to that operation's frame, from its first byte on.
C2_InOrder ==
  \A i \in DOMAIN ops :
    /\ IsSettled(ops[i]) => \A j \in 1..(i - 1) : IsSettled(ops[j])
    /\ ops[i].sfrom # <<>> => ops[i].sfrom = << ops[i].frame, 0 >>
    /\ ~ops[i].mix

\* Two answered commands in a row, the first with a body after its status.
C2_Witness ==
  \E i \in DOMAIN ops :
    /\ i > 1
    /\ ops[i - 1].st = "resolved"
    /\ ops[i - 1].res \in { "list", "string", "data" }
    /\ ops[i - 1].acc # <<>>
    /\ ops[i].st = "resolved"
    /\ ops[i].sfrom # <<>>

\* C3: an operation submitted after exit() has resolved writes nothing to the
\* socket and rejects with the 'Connection already closed' error.
C3_NothingAfterExit ==
  \A i \in DOMAIN ops :
    ops[i].afterExit =>
      /\ ops[i].frame = 0
      /\ IsSettled(ops[i]) => Rejected(ops[i], "AlreadyClosed")

\* C4: once the EXIT frame is on the wire, every write an output facade
\* accepted before that exit() was called has its frame on the wire before
\* it, and the EXIT frame is the last frame written.  Runs in which a facade
\* was destroyed before exit ran (by the consumer, a failed write or the
\* socket closing) are left out: there the writes are not exit's to lose.
C4_WritesBeforeExit ==
  \A i \in DOMAIN ops :
    ( /\ ops[i].cmd = EXIT
      /\ ops[i].frame > 0
      /\ \A j \in 1..(i - 1) : ~(ops[j].cmd \in CloseCmds /\ ops[j].call = 0) ) =>
      /\ \A w \in DOMAIN accepted :
           accepted[w].call < ops[i].call =>
             \E j \in DOMAIN ops :
               /\ ops[j].wid = w
               /\ ops[j].frame > 0
               /\ ops[j].frame < ops[i].frame
      /\ ops[i].frame = Len(wire)

\* C5: every operation settles once the endpoint has answered its command.
\* Stated on finite runs: an operation that awaits a read while the socket is
\* open and the endpoint has sent the whole response to its frame (and is
\* back at its command loop) can take that read.
C5_AnsweredProceeds ==
  \A i \in DOMAIN ops :
    ( /\ Reading(ops[i])
      /\ ~sockClosed
      /\ ep.st = "opcode"
      /\ ep.frames = ops[i].frame
      /\ c2e = <<>> ) => CanRead(Need(ops[i]))

ClosedErrors == { "SocketClosed", "WriteFailed", "AlreadyClosed" }

\* C6 as stated: when the socket closes, the operation in flight and every
\* operation queued behind it fail with a connection-closed error.
C6_CloseFailsAll ==
  \A i \in DOMAIN ops :
    /\ sockClosed => ~Reading(ops[i])
    /\ (ops[i].atClose # "none" /\ IsSettled(ops[i])) =>
         (ops[i].st = "rejected" /\ ops[i].err \in ClosedErrors)

\* C6 amended: when the socket closes, the operation in flight rejects (its
\* pending read with the socket-closed error, a pending write with the
\* socket's write error) and no read stays pending; of the operations queued
\* behind it, exit rejects with 'Connection already closed', a stream-close
\* command resolves without writing, and any other rejects with the
\* socket's write error, nothing written.
C6_CloseSettlesAll ==
  \A i \in DOMAIN ops :
    LET o == ops[i]
    IN  /\ sockClosed => ~Reading(o)
        /\ (o.atClose = "inflight" /\ IsSettled(o)) =>
             (o.st = "rejected" /\ o.err \in { "SocketClosed", "WriteFailed" })
        /\ o.atClose = "queued" => o.frame = 0
        /\ (o.atClose = "queued" /\ IsSettled(o)) =>
             CASE o.cmd = EXIT -> Rejected(o, "AlreadyClosed")
               [] o.cmd \in CloseCmds -> o.st = "resolved" /\ o.res = "void"
               [] OTHER -> Rejected(o, "WriteFailed")

\* The socket closed under a pending read with a stream-close and another
\* command queued behind it; all three have settled.
C6_Witness ==
  \E i, j, k \in DOMAIN ops :
    /\ ops[i].atClose = "inflight" /\ Rejected(ops[i], "SocketClosed")
    /\ ops[j].atClose = "queued" /\ ops[j].cmd \in CloseCmds
    /\ ops[j].st = "resolved"
    /\ ops[k].atClose = "queued" /\ Rejected(ops[k], "WriteFailed")

\* C7: an exit whose handleInvoke starts on a closed socket rejects with
\* 'Connection already closed' and writes nothing.
C7_ExitOnClosedSocket ==
  \A i \in DOMAIN ops :
    (ops[i].cmd = EXIT /\ ops[i].head = "closed") =>
      /\ Rejected(ops[i], "AlreadyClosed")
      /\ ops[i].frame = 0
      /\ \A a \in DOMAIN wire : wire[a] # i

\* exit() reached the head of the queue after the socket had closed, with no
\* exit sent before it.
C7_Witness ==
  \E i \in DOMAIN ops :
    /\ ops[i].cmd = EXIT
    /\ ops[i].head = "closed"
    /\ ~hasSentExit
    /\ IsSettled(ops[i])

\* C8: a stream-close command whose handleInvoke starts on a closed
\* connection (the socket closed, or exit sent) resolves and writes nothing,
\* where an exit in that situation rejects.
C8_CloseOnClosedConnection ==
  \A i \in DOMAIN ops :
    ops[i].head \in { "closed", "exited" } =>
      /\ ops[i].cmd \in CloseCmds =>
           (ops[i].st = "resolved" /\ ops[i].res = "void" /\ ops[i].frame = 0)
      /\ ops[i].cmd = EXIT => (ops[i].st = "rejected" /\ ops[i].frame = 0)

\* A stream-close and an exit that both found the connection closed.
C8_Witness ==
  \E i, j \in DOMAIN ops :
    /\ ops[i].cmd \in CloseCmds /\ ops[i].head = "closed"
    /\ ops[i].st = "resolved"
    /\ ops[j].cmd = EXIT /\ ops[j].head = "closed"
    /\ ops[j].st = "rejected"

\* C9: of the CLOSE_STDIN commands the endpoint answered on an open
\* connection, the first resolves and every later one rejects with the
\* endpoint's non-empty message, whether the first came from closeStream or
\* from stdin.destroy().
C9_SecondCloseInputFails ==
  \A i \in DOMAIN ops :
    ( /\ ops[i].cmd = CLOSE_STDIN
      /\ ops[i].sfrom # <<>>
      /\ IsSettled(ops[i])
      /\ ops[i].err # "SocketClosed" ) =>
      IF \E j \in 1..(i - 1) : ops[j].cmd = CLOSE_STDIN /\ ops[j].frame > 0
      THEN Rejected(ops[i], "Protocol") /\ ops[i].msg # <<>>
           /\ ops[i].msg # UnknownError
      ELSE ops[i].st = "resolved"

\* stdin.destroy() sent the first CLOSE_STDIN, which resolved; closeStream
\* sent the next, which the endpoint refused.
C9_Witness ==
  \E i, j \in DOMAIN ops :
    /\ i < j
    /\ ops[i].cmd = CLOSE_STDIN /\ ops[i].call = 0
    /\ ops[i].st = "resolved" /\ ops[i].frame > 0
    /\ ops[j].cmd = CLOSE_STDIN /\ ops[j].call > 0
    /\ Rejected(ops[j], "Protocol")
    /\ ~sockClosed
    /\ \A k \in DOMAIN ops : ops[k].cmd # EXIT

\* The operation that a step rejects on a non-zero status.
RejectsOnStatus(i) == ~IsSettled(ops[i]) /\ Rejected(ops'[i], "Protocol")

\* C10: a non-zero status rejects that operation alone.  The step that
\* rejects it leaves the socket open and settles no other operation; the
\* whole message has been consumed (no byte of that response is left to
\* read); and an operation after it that reads a status reads the first byte
\* of the response to its own frame.
C10_ProtocolErrorIsLocal ==
  /\ [](\A i \in DOMAIN ops :
          ops[i].err = "Protocol" =>
            /\ \A b \in DOMAIN e2c : e2c[b].f # ops[i].frame
            /\ \A j \in DOMAIN ops :
                 (j > i /\ ops[j].sfrom # <<>>) =>
                   ops[j].sfrom = << ops[j].frame, 0 >>)
  /\ [][\A i \in DOMAIN ops :
          RejectsOnStatus(i) =>
            /\ ~sockClosed'
            /\ \A j \in DOMAIN ops : j # i => ops'[j].st = ops[j].st]_vars

\* A refused command followed by an answered one, the socket still open.
C10_Witness ==
  \E i \in DOMAIN ops :
    /\ i > 1
    /\ ops[i - 1].err = "Protocol"
    /\ ops[i].st = "resolved"
    /\ ops[i].sfrom # <<>>
    /\ ~sockClosed
\* C11: `closed` is true in every state after the socket has closed or an
\* exit command has been dispatched with success, and false before both.
C11_ClosedFlag == closed <=> (sockClosed \/ hasSentExit)

\* The commands issued for the w-th accepted write, and the opcodes written
\* for them.
OpsOf(w) == { j \in DOMAIN ops : ops[j].wid = w }

FramesOf(w) == { p \in DOMAIN wire : wire[p] \in OpsOf(w) }

\* The w-th accepted write still waits: in the Writable's buffer, or as a
\* command that has not settled.
Waiting(w) ==
  \/ \E p \in DOMAIN wbuf[accepted[w].f] : wbuf[accepted[w].f][p].wid = w
  \/ \E j \in OpsOf(w) : ~IsSettled(ops[j])

\* C19 as stated: every buffer written to an output facade produces exactly
\* one write frame, once nothing of it waits any more.
C19_ExactlyOneFrame ==
  \A w \in DOMAIN accepted : ~Waiting(w) => Cardinality(FramesOf(w)) = 1

\* C19: every buffer written to an output facade is sent as one write command
\* at most, of the facade's opcode and carrying the length and the buffer,
\* also when the write is rejected; its opcode goes on the wire once at most,
\* and exactly once when the write succeeded; the frames of one facade appear
\* in the order of the writes.
C19_AtMostOneFrame ==
  /\ \A w \in DOMAIN accepted :
        /\ Cardinality(OpsOf(w)) <= 1
        /\ Cardinality(FramesOf(w)) <= 1
        /\ \A j \in OpsOf(w) :
              /\ ops[j].cmd = WriteCmd(accepted[w].f)
              /\ ops[j].payload =
                   << uint32(Len(accepted[w].data)), accepted[w].data >>
              /\ ops[j].st = "resolved" => Cardinality(FramesOf(w)) = 1
              /\ ops[j].frame > 0 <=> FramesOf(w) = { ops[j].frame }
  /\ \A w1, w2 \in DOMAIN accepted :
        (w1 < w2 /\ accepted[w1].f = accepted[w2].f) =>
          \A p2 \in FramesOf(w2) : \E p1 \in FramesOf(w1) : p1 < p2

\* C19 witness: two writes to one facade are both on the wire, and a rejected
\* write has its one frame there.
C19_Witness ==
  /\ \E w1, w2 \in DOMAIN accepted :
        /\ w1 < w2
        /\ accepted[w1].f = accepted[w2].f
        /\ FramesOf(w1) # {}
        /\ FramesOf(w2) # {}
  /\ \E w \in DOMAIN accepted :
        \E j \in OpsOf(w) : ops[j].st = "rejected" /\ ops[j].frame > 0

\* The write commands, each issued by _write of an output facade.
IsWrite(o) == o.src \in OutFacades

\* C20: the callback of a write is called without an error only when the
\* status of the response to that write's own frame has been read and is 0;
\* a write whose command failed, by a non-zero status or by the transport,
\* has its callback called with an error; nothing is called before.
C20_CallbackAfterStatus ==
  \A j \in DOMAIN ops :
    IsWrite(ops[j]) =>
      /\ ops[j].cb = "ok" =>
            /\ ops[j].sfrom = << ops[j].frame, 0 >>
            /\ ops[j].frame > 0
            /\ ops[j].status = 0
      /\ (ops[j].sfrom # <<>> /\ ops[j].status # 0 /\ IsSettled(ops[j])) =>
            ops[j].cb = "error"
      /\ ops[j].st = "rejected" => ops[j].cb = "error"
      /\ ~IsSettled(ops[j]) => ops[j].cb = "none"

\* C20 witness: one write was reported complete, the next failed on a non-zero
\* status, and a write to the other facade failed on the transport.
C20_Witness ==
  /\ \E j \in DOMAIN ops : IsWrite(ops[j]) /\ ops[j].cb = "ok"
  /\ \E j \in DOMAIN ops :
        /\ IsWrite(ops[j])
        /\ ops[j].cb = "error"
        /\ Rejected(ops[j], "Protocol")
        /\ ops[j].status # 0
  /\ \E j \in DOMAIN ops :
        /\ IsWrite(ops[j])
        /\ ops[j].cb = "error"
        /\ ops[j].err \in {"SocketClosed", "WriteFailed"}

\* C12: a Connection whose socket has closed has emitted exactly one 'close'
\* event, and its three facades were destroyed when it did; a Connection whose
\* socket is open has emitted none.
C12_OneCloseEvent ==
  Connected =>
    /\ closeEvents = IF sockClosed THEN 1 ELSE 0
    /\ closeEvents > 0 => \A f \in Facades : destroyed[f]

\* The ways a handshake fails.
Failures == { "timeout", "header", "validation", "threw", "error", "closed" }

Verified ==
  /\ Len(hs.got) = HANDSHAKE_LENGTH
  /\ hs.got = Take(hs.sent, HANDSHAKE_LENGTH)
  /\ protocolHeader(hs.got) = HANDSHAKE_PROTOCOL

\* C14: a Connection exists, the consumer's callback was called, a command
\* was issued or written only when the prefix has been verified and the
\* validator, when configured, was asked once and answered true; the callback
\* is called once at most and one Connection at most is constructed.
C14_NothingBeforeAdmission ==
  /\ hs.listener <= 1
  /\ hs.conn <= 1
  /\ (hs.listener > 0 \/ hs.conn > 0 \/ ops # <<>> \/ c2e # <<>> \/ wire # <<>>) =>
       /\ Verified
       /\ hs.validator # "none" => (hs.asked = 1 /\ hs.verdict = "true")
       /\ hs.validator = "none" => hs.asked = 0

\* C14 witness: after the validator answered true the callback was called
\* once and the Connection wrote a command frame.
C14_Witness ==
  /\ hs.validator = "match"
  /\ hs.verdict = "true"
  /\ hs.listener = 1
  /\ wire # <<>>

\* The bytes of a token field before its first zero byte.
BeforeZero(field) ==
  LET zeros == { j \in DOMAIN field : field[j] = 0 }
  IN  IF zeros = {} THEN field
      ELSE Take(field, (CHOOSE j \in zeros : \A k \in zeros : j <= k) - 1)

\* The token has been parsed from the handshake.
Parsed == hs.token # Unobserved

\* C15 as stated: the token is the bytes of the field before its first zero
\* byte, which is to say that its UTF-8 bytes are those.
C15_TokenIsFieldBytes ==
  Parsed => Utf8Encode(hs.token) = BeforeZero(tokenBuffer(hs.got))

\* C15: the token handed to the validator and to the Connection is the UTF-8
\* decoding of the bytes of the field before its first zero byte: empty when
\* the first byte is zero, of all 128 bytes when none is zero, and with the
\* same bytes as the field's whenever the decoding loses nothing.
C15_TokenIsDecodedPrefix ==
  Parsed =>
    LET field == tokenBuffer(hs.got)
        bytes == BeforeZero(field)
    IN  /\ Len(field) = HANDSHAKE_TOKEN_LENGTH
        /\ hs.token = Utf8Decode(bytes)
        /\ field[1] = 0 => hs.token = <<>>
        /\ (\A j \in DOMAIN field : field[j] # 0) => bytes = field
        /\ Utf8Encode(Utf8Decode(bytes)) = bytes => Utf8Encode(hs.token) = bytes

\* C15 witness: a field with a zero as its second byte and other bytes behind
\* it gave the token of one character.
C15_Witness ==
  /\ Parsed
  /\ hs.token = << 116 >>
  /\ tokenBuffer(hs.got)[2] = 0
  /\ tokenBuffer(hs.got)[3] # 0

\* The value of PROCESS_PROXY_TOKEN as bytes; none when it is unset.
Value == IF hs.env = Unset THEN <<>> ELSE hs.env

\* C16 as stated: the token of an endpoint's handshake equals the value of
\* PROCESS_PROXY_TOKEN, or its first 128 bytes when it is longer, and the
\* handshake has 146 bytes.
C16_TokenIsValue ==
  hs.kind = "endpoint" =>
    /\ Len(hs.sent) = HANDSHAKE_LENGTH
    /\ Parsed =>
         Utf8Encode(hs.token) = Take(Value, Min(Len(Value), HANDSHAKE_TOKEN_LENGTH))

\* C16: the handshake of an endpoint has 146 bytes, and its token is the
\* UTF-8 decoding of the first 128 bytes of the value of PROCESS_PROXY_TOKEN
\* (of all of it when it is shorter, of nothing when it is unset); the token
\* has those bytes whenever they are well-formed UTF-8.
C16_TokenIsDecodedValue ==
  hs.kind = "endpoint" =>
    LET bytes == Take(Value, Min(Len(Value), HANDSHAKE_TOKEN_LENGTH))
    IN  /\ Len(hs.sent) = HANDSHAKE_LENGTH
        /\ Parsed =>
             /\ hs.token = Utf8Decode(bytes)
             /\ hs.env = Unset => hs.token = <<>>
             /\ Utf8Encode(Utf8Decode(bytes)) = bytes =>
                  Utf8Encode(hs.token) = bytes

\* C16 witness: a value of 129 bytes gave the token of its first 128.
C16_Witness ==
  /\ hs.kind = "endpoint"
  /\ Len(Value) = HANDSHAKE_TOKEN_LENGTH + 1
  /\ Parsed
  /\ hs.token = Take(Value, HANDSHAKE_TOKEN_LENGTH)
  /\ hs.st = "accepted"

\* What becomes of a handshake buffer under a validator, as a function of
\* the two alone.
Outcome(buffer, validator) ==
  CASE protocolHeader(buffer) # HANDSHAKE_PROTOCOL -> "header"
    [] validator = "none" -> "accepted"
    [] validator = "throw" -> "threw"
    [] ExtractToken(buffer) = Expected -> "accepted"
    [] OTHER -> "validation"

\* C17: the buffer read is the first 146 bytes sent however they were split;
\* acceptance, the token and a rejection by the header or the validator are
\* functions of that buffer; the read waits only while fewer than 146 bytes
\* have arrived, and the deadline, an error or a close fail only a handshake of
\* which fewer than 146 bytes have arrived.
C17_ChunkingIndependent ==
  /\ hs.st = "reading" => hs.arrived < HANDSHAKE_LENGTH
  /\ (hs.st = "rejected" /\ hs.why \in {"timeout", "error", "closed"}) =>
       (hs.arrived < HANDSHAKE_LENGTH /\ hs.got = <<>>)
  /\ hs.got # <<>> =>
       /\ hs.got = Take(hs.sent, HANDSHAKE_LENGTH)
       /\ hs.st = "accepted" =>
            /\ Outcome(hs.got, hs.validator) = "accepted"
            /\ hs.token = ExtractToken(hs.got)
       /\ hs.st = "rejected" => hs.why = Outcome(hs.got, hs.validator)
       /\ hs.st = "validating" =>
            Outcome(hs.got, hs.validator) \in {"accepted", "threw", "validation"}

\* C17 witness: a handshake that arrived in more than one chunk was accepted
\* with its token.
C17_Witness ==
  /\ hs.st = "accepted"
  /\ hs.parts = 2
  /\ hs.token = Expected

\* The bytes that have arrived behind the handshake.
Trailing == SubSeq(hs.sent, HANDSHAKE_LENGTH + 1, hs.arrived)

\* The bytes the Connection has read: the status of its first command.
ConnectionRead == IF ops # <<>> /\ ops[1].sfrom # <<>> THEN 4 ELSE 0

\* C18: once the handshake is read, the socket holds exactly the bytes that
\* arrived behind its 146, in order, less those the Connection has read; the
\* Connection's first read returns the first of them.
C18_TrailingBytesKept ==
  (hs.got # <<>> /\ ~sockClosed) =>
    /\ Len(hs.got) = HANDSHAKE_LENGTH
    /\ Bytes(e2c) = Drop(Trailing, ConnectionRead)
    /\ \A j \in DOMAIN e2c :
          e2c[j].o = HANDSHAKE_LENGTH + ConnectionRead + j - 1
    /\ ConnectionRead = 4 =>
          /\ ops[1].status = readInt32LE(Take(Trailing, 4))
          /\ ops[1].sfrom = << 0, HANDSHAKE_LENGTH >>

\* C18 witness: bytes arrived in one chunk with the end of the handshake, and
\* the Connection's first read returned them as its status.
C18_Witness ==
  /\ hs.extra > 0
  /\ ConnectionRead = 4
  /\ ops[1].status = 1
  /\ Take(Trailing, 4) = << 1, 0, 0, 0 >>


\* ---------------------------------------------------------------------------
\* C24: after the input facade was destroyed (its _destroy enqueued the
\* CLOSE_STDIN that no direct call asked for) no READ_STDIN is issued: every
\* READ_STDIN in the queue was enqueued before that close.
C24_NoReadAfterDestroy ==
  \A i, j \in DOMAIN ops :
    (i < j /\ ops[i].cmd = CLOSE_STDIN /\ ops[i].call = 0)
      => ops[j].cmd # READ_STDIN


\* ---------------------------------------------------------------------------
\* The close commands that _destroy of facade f enqueued.
DestroyCloses(f) ==
  { i \in DOMAIN ops : ops[i].cmd = CloseCmd(f) /\ ops[i].call = 0 }

\* C26: a destroyed facade has enqueued exactly one close command of its own
\* opcode, whatever destroyed it again afterwards (destroy(), exit's
\* onBeforeSend, the socket's close handler); a facade that was not destroyed
\* has enqueued none.
C26_OneClosePerDestroy ==
  \A f \in Facades :
    Cardinality(DestroyCloses(f)) = IF destroyed[f] THEN 1 ELSE 0

\* C26 witness: stdin was destroyed by two direct calls (calls 1 and 2 left
\* one close and nothing else), then exit's onBeforeSend and the socket's close
\* handler went over the facades again.
C26_Witness ==
  /\ calls = 3
  /\ accepted = <<>>
  /\ Len(ops) = 4
  /\ ops[1].cmd = CLOSE_STDIN /\ ops[1].call = 0
  /\ ops[2].cmd = EXIT /\ ops[2].call = 3 /\ ops[2].head = "open"
  /\ sockClosed
  /\ \A f \in Facades : destroyed[f]


\* ---------------------------------------------------------------------------
\* The READ_STDIN commands of the input facade.
StdinOps == { i \in DOMAIN ops : ops[i].src = "stdin" }

\* C21: a READ_STDIN that resolved with null (n = -1) is the last READ_STDIN
\* the facade issued, and the facade, once it has reacted, is ended and stays
\* so; the facade is ended for no other reason.
C21_EndOnce ==
  /\ \A i \in StdinOps :
       ops[i].res = "null" =>
         /\ i = LastStdinOp
         /\ stdinSt \in { "react", "ended" }
  /\ stdinSt = "ended" => ops[LastStdinOp].res = "null"

\* C21 witness: the facade delivered the bytes of stdin, then a read reported
\* n = -1 and the facade ended.
C21_Witness ==
  /\ stdinSt = "ended"
  /\ delivered # <<>>
  /\ ~destroyed["stdin"]
  /\ ops[LastStdinOp].res = "null"


\* ---------------------------------------------------------------------------
\* The READ_STDIN the facade issued next after ops[i], 0 when there is none.
NextStdinOp(i) ==
  IF \E j \in StdinOps : j > i
  THEN CHOOSE j \in StdinOps : j > i /\ \A k \in StdinOps : k > i => j <= k
  ELSE 0

\* A readStdin that resolved with an empty buffer (n = 0) and whose reaction
\* found the stream flowing.
EmptyWhileFlowing(i) ==
  /\ ops[i].res = "data"
  /\ ops[i].acc = <<>>
  /\ ops[i].flow = "flowing"

C23_DemandRestartsReads ==
  (flowing /\ stdinSt # "ended") => stdinSt # "stalled"


\* ---------------------------------------------------------------------------
\* C25: what the facade has delivered is at every moment the beginning of the
\* text written to the child's stdin, no byte lost, repeated or out of place,
\* never more than was written; and when the facade has signalled the end it
\* has delivered the whole text.
C25_ExactBytes ==
  /\ Len(delivered) <= ep.fed
  /\ delivered = SubSeq(StdinText, 1, Len(delivered))
  /\ stdinSt = "ended" => delivered = StdinText

\* C25 witness: the text reached the consumer in more than one chunk, and the
\* end was signalled behind it.
C25_Witness ==
  /\ stdinSt = "ended"
  /\ delivered = StdinText
  /\ \E i, j \in StdinOps : i < j /\ ops[i].acc # <<>> /\ ops[j].acc # <<>>


\* ---------------------------------------------------------------------------
\* C27: a length-prefixed string of the endpoint is decoded by the
\* connection.  Once the bytes its length announces are all in the socket
\* (none, for a length of 0) the read of the string takes them; and the string
\* getCwd resolves with is the one the endpoint encoded: its UTF-8 encoding is
\* the bytes sent, and the decode took 4 + length bytes of the answer and no
\* byte of another.
C27_StringRoundTrip ==
  /\ \A i \in DOMAIN ops :
       (Running(i, {"str"}) /\ ~sockClosed /\ Len(e2c) >= ops[i].n)
         => CanRead(ops[i].n)
  /\ \A i \in DOMAIN ops :
       (ops[i].cmd = GET_CWD /\ ops[i].st = "resolved") =>
         /\ Len(ops[i].acc) = 1
         /\ Utf8Encode(ops[i].acc[1]) = Cwd
         /\ ~ops[i].mix


\* ---------------------------------------------------------------------------
\* C28: the endpoint takes the declared number of payload bytes of a write
\* command as data and the byte behind them as the next opcode.  Whenever it
\* has read an opcode, that byte is the opcode of the command the connection
\* sent as that frame; and it exits only by an EXIT the connection sent.
C28_PayloadIsData ==
  /\ ep.st = "cmd" =>
       /\ ep.frames <= Len(wire)
       /\ ep.cmd = ops[wire[ep.frames]].cmd
  /\ ep.st = "closed" => \E i \in DOMAIN ops : ops[i].cmd = EXIT


\* ---------------------------------------------------------------------------
\* The buffers written to facade f that the endpoint has handled, joined in
\* the order of the writes, from the i-th accepted write on.
RECURSIVE Handled(_, _)
Handled(f, w) ==
  IF w > Len(accepted) THEN <<>>
  ELSE (IF /\ accepted[w].f = f
           /\ \E j \in OpsOf(w) :
                /\ ops[j].frame > 0
                /\ \/ ops[j].frame < ep.frames
                   \/ ops[j].frame = ep.frames /\ ep.st = "opcode"
        THEN accepted[w].data ELSE <<>>) \o Handled(f, w + 1)

\* C29: the child's standard output (error) holds exactly the bytes of the
\* buffers written to stdout (stderr) that the endpoint has handled, in the
\* order written; no write fails, and every write answered was answered with
\* status 0, the empty buffer too; the endpoint reads each opcode where the
\* connection wrote one (a length of 0 has no payload behind it), and nothing
\* is left on the socket when all is handled.
C29_BytesAppear ==
  /\ \A f \in OutFacades : ep.out[f] = Handled(f, 1)
  /\ \A j \in DOMAIN ops :
       /\ ops[j].st # "rejected"
       /\ ops[j].status = 0
       /\ ops[j].cb # "error"
       /\ ops[j].st = "resolved" => ops[j].frame <= ep.frames
  /\ ep.st = "cmd" => ep.cmd = ops[wire[ep.frames]].cmd
  /\ (ep.st = "opcode" /\ ep.frames = Len(wire)
        /\ \A j \in DOMAIN ops : ops[j].pc # "write") => c2e = <<>>

\* C29 witness: an empty buffer and a buffer of two bytes were written to
\* stdout and both writes succeeded; the two bytes are on the child's output.
C29_Witness ==
  /\ ep.out["stdout"] = << 65, 66 >>
  /\ \E w1, w2 \in DOMAIN accepted :
       /\ accepted[w1].f = "stdout" /\ accepted[w1].data = <<>>
       /\ accepted[w2].f = "stdout" /\ accepted[w2].data = << 65, 66 >>
       /\ \A j \in OpsOf(w1) \cup OpsOf(w2) : ops[j].cb = "ok"
       /\ OpsOf(w1) # {} /\ OpsOf(w2) # {}


\* ---------------------------------------------------------------------------
\* C30: isStdinConnected() resolves true when the endpoint found input
\* connected (open and not at end-of-stream, or holding buffered bytes) and
\* answered with its nonzero value, whichever that is, and false when it
\* found input closed or at end-of-stream with nothing buffered and answered
\* 0.  Input that is disconnected stays so, so an answer of false is still
\* true of the input afterwards.
C30_ConnectedFlag ==
  \A i \in DOMAIN ops :
    (ops[i].cmd = IS_STDIN_CONNECTED /\ ops[i].st = "resolved") =>
      /\ ops[i].res \in { "true", "false" }
      /\ ops[i].frame = ep.asked.frame =>
           (ops[i].res = "true" <=> ep.asked.connected)
      /\ ops[i].res = "false" => ~StdinConnected(ep)

\* C30 witness: an endpoint whose nonzero value is 256 was asked after the
\* writer had closed the child's stdin with bytes still buffered, and
\* isStdinConnected resolved true; an earlier read had taken some of the text.
C30_Witness ==
  \E i \in DOMAIN ops :
    /\ ops[i].cmd = IS_STDIN_CONNECTED
    /\ ops[i].res = "true"
    /\ ops[i].frame = ep.asked.frame
    /\ ep.asked.eof
    /\ ep.yes = 256
    /\ delivered # <<>>

\* ---------------------------------------------------------------------------
\* The transported entries as strings, and the key and the value of one that
\* holds '=': what stands before the first '=' and what stands behind it.
Entries == [j \in DOMAIN ep.environ |-> Utf8Decode(ep.environ[j])]

HasEq(e) == \E p \in DOMAIN e : e[p] = 61

KeyOf(e) == SubSeq(e, 1, indexOfEq(e))

ValueOf(e) == SubSeq(e, indexOfEq(e) + 2, Len(e))

\* C31: the mapping getEnv resolved with holds, for every transported entry
\* with '=', its key with the value of the last entry of that key, and holds
\* no other key and none twice.
C31_EnvMapping ==
  \A i \in DOMAIN ops :
    (ops[i].cmd = GET_ENV /\ ops[i].st = "resolved") =>
      LET env == ops[i].acc
      IN  /\ \A j \in DOMAIN Entries :
                HasEq(Entries[j]) =>
                  \E p \in DOMAIN env :
                    /\ env[p][1] = KeyOf(Entries[j])
                    /\ \E l \in DOMAIN Entries :
                         /\ HasEq(Entries[l])
                         /\ KeyOf(Entries[l]) = env[p][1]
                         /\ ValueOf(Entries[l]) = env[p][2]
                         /\ \A m \in DOMAIN Entries :
                              (m > l /\ HasEq(Entries[m]))
                                => KeyOf(Entries[m]) # env[p][1]
          /\ \A p \in DOMAIN env :
                \E j \in DOMAIN Entries :
                  HasEq(Entries[j]) /\ KeyOf(Entries[j]) = env[p][1]
          /\ \A p, q \in DOMAIN env : env[p][1] = env[q][1] => p = q


\* ---------------------------------------------------------------------------
\* The exit code of the EXIT frame the endpoint read last: its four bytes are
\* the last it received.
ExitRequested ==
  readInt32LE(SubSeq(ep.rcvd, Len(ep.rcvd) - 3, Len(ep.rcvd)))

\* What C32 says of every end but the one by EXIT: the process has ended
\* exactly when something ended it; a loop ended by recv (end-of-stream or a
\* socket error) or by an unknown opcode gives 0; a missing or unusable port,
\* a failed socket() or connect() and a handshake not sent in full give a
\* status other than 0, and an endpoint with such a port never gets further.
EndsWithoutExit ==
  /\ ep.st = "closed" <=> ep.why # "none"
  /\ ep.why \in { "recv", "opcode" } => ep.exitCode = 0
  /\ ep.why \in { "port", "socket", "connect", "handshake" } => ep.exitCode # 0
  /\ (ep.st # "start" /\ (ep.port = Unset \/ atoi(ep.port) \notin 1..65535))
       => ep.why = "port"
  /\ ep.why = "handshake" => Len(e2c) < HANDSHAKE_LENGTH
  /\ ep.why \in { "port", "socket", "connect" } => e2c = <<>>

\* C32 as stated: the ends without EXIT as above, and after an EXIT command
\* the exit status is the code the command supplied.
C32_ExitStatusIsCode ==
  /\ EndsWithoutExit
  /\ ep.why = "exit" => ep.exitCode = ExitRequested

\* C32, amended: the ends without EXIT as above; after an EXIT command the
\* exit status is the supplied code when that lies in 0..255 or the build is
\* the Windows one, and agrees with the code in its low eight bits always.
C32_ExitStatus ==
  /\ EndsWithoutExit
  /\ ep.why = "exit" =>
       /\ ep.exitCode % 256 = ExitRequested % 256
       /\ (ExitRequested \in 0..255 \/ ~ep.posix) => ep.exitCode = ExitRequested

\* C32 witness: a POSIX endpoint was asked to exit with -1 and ended with
\* status 255.
C32_Witness ==
  /\ ep.why = "exit"
  /\ ep.posix
  /\ ExitRequested = -1
  /\ ep.exitCode = 255


\* ---------------------------------------------------------------------------
\* The first k fragments of a command's frame, one behind the other.
RECURSIVE Fragments(_, _)
Fragments(frags, k) ==
  IF k = 0 THEN <<>> ELSE Fragments(frags, k - 1) \o frags[k]

\* What the command has put on the socket if every command that has read a
\* byte of its response had written its whole frame before: the whole frame
\* for those, the fragments written so far for the others.
FrameBytes(o) ==
  LET frags == << uint8(o.cmd) >> \o o.payload
  IN  Fragments(frags, IF o.sfrom # <<>> THEN Len(frags) ELSE o.k)

\* The frames of the first a commands on the wire, one behind the other.
RECURSIVE Frames(_)
Frames(a) ==
  IF a = 0 THEN <<>> ELSE Frames(a - 1) \o FrameBytes(ops[wire[a]])

\* C33: every command that completed successfully through the socket had read
\* its status, and the bytes written to the socket so far (those the endpoint
\* has received and those still under way) are the frames in the order their
\* opcodes were written, each whole and in one piece for a command that has
\* read a byte of its response, with no byte of another frame inside it.
C33_FrameBeforeResponse ==
  /\ \A i \in DOMAIN ops :
       (ops[i].st = "resolved" /\ ops[i].frame > 0) => ops[i].sfrom # <<>>
  /\ \A i \in DOMAIN ops : ops[i].sfrom # <<>> => ops[i].frame > 0
  /\ ep.rcvd \o c2e = Frames(Len(wire))

\* C33 witness: a write of three fragments and an exit behind it both
\* completed successfully.
C33_Witness ==
  \E i, j \in DOMAIN ops :
    /\ i < j
    /\ ops[i].cmd = WRITE_STDOUT /\ ops[i].st = "resolved" /\ ops[i].frame > 0
    /\ ops[j].cmd = EXIT /\ ops[j].st = "resolved" /\ ops[j].frame > 0


\* ---------------------------------------------------------------------------
\* The request frames that `bytes` holds in full, counted from its head: an
\* opcode with the payload its handler reads (four bytes for READ_STDIN and
\* EXIT, the length and that many bytes for the writes, nothing for the
\* others).  An unknown opcode or a frame cut short ends the count.
RECURSIVE CompleteFrames(_)
CompleteFrames(bytes) ==
  IF bytes = <<>> \/ Head(bytes) \notin KnownCommands THEN 0
  ELSE LET cmd == Head(bytes)
           rest == Tail(bytes)
           need == CASE cmd \in { READ_STDIN, EXIT } -> 4
                     [] cmd \in { WRITE_STDOUT, WRITE_STDERR } ->
                          IF Len(rest) < 4 THEN 4
                          ELSE 4 + readUInt32LE(Take(rest, 4))
                     [] OTHER -> 0
       IN  IF Len(rest) < need THEN 0
           ELSE 1 + CompleteFrames(Drop(rest, need))

\* The bytes of the handshake among those the endpoint has sent.
HandshakeSent == Cardinality({ j \in DOMAIN e2c : e2c[j].f = 0 })

\* C34: what the endpoint has sent is the handshake, once and at the head,
\* whole before any opcode is read, and behind it the responses, each in one
\* piece and in the order of the opcodes; a response is there only for a
\* request the endpoint has read in full, and for each such request once its
\* handler has returned.
C34_OnlyResponses ==
  LET H == HandshakeSent
      R == Drop(e2c, H)
  IN  /\ \A j \in 1..H :
           /\ e2c[j].f = 0
           /\ e2c[j].o = j - 1
           /\ e2c[j].b = BuildHandshake(hs.env)[j]
      /\ ep.rcvd # <<>> => H = HANDSHAKE_LENGTH
      /\ R # <<>> => R[1].o = 0
      /\ \A j \in 2..Len(R) :
           \/ R[j].f = R[j - 1].f /\ R[j].o = R[j - 1].o + 1
           \/ R[j].f > R[j - 1].f /\ R[j].o = 0
      /\ \A j \in DOMAIN R : R[j].f <= CompleteFrames(ep.rcvd)
      /\ (~sockClosed /\ ep.st # "cmd") =>
           { R[j].f : j \in DOMAIN R } = 1..CompleteFrames(ep.rcvd)


\* ---------------------------------------------------------------------------
\* C35: once the switch has met an opcode outside the defined set, the process
\* has ended with the socket closed; that opcode is the last byte it has
\* read, so nothing sent behind it is processed, and every response it has
\* sent answers one of the known opcodes read before.
C35_UnknownOpcodeEnds ==
  (ep.cmd # 0 /\ ep.cmd \notin KnownCommands) =>
    /\ ep.st = "closed"
    /\ ep.why = "opcode"
    /\ ep.rcvd[Len(ep.rcvd)] = ep.cmd
    /\ \A j \in DOMAIN e2c : e2c[j].f <= ep.frames
    /\ ~sockClosed => { e2c[j].f : j \in DOMAIN e2c } \ {0} = 1..ep.frames

\* C35 witness: the endpoint answered one command, then met the opcode 8 and
\* ended; a frame sent behind it was left unread and unanswered.
C35_Witness ==
  /\ ep.cmd = 8
  /\ ep.st = "closed"
  /\ ep.frames = 1
  /\ c2e # <<>>
  /\ \E j \in DOMAIN e2c : e2c[j].f = 1
  /\ ~sockClosed


\* ---------------------------------------------------------------------------
\* C36: when the endpoint has processed the EXIT frame of an exit(), it has
\* ended with the requested code and its status-0 response went out first:
\* until the connection's 'close' event the response is on its way or read,
\* and at the 'close' event exit() had resolved.
C36_ExitResolvesBeforeClose ==
  \A i \in DOMAIN ops :
    (ops[i].cmd = EXIT /\ ops[i].frame > 0 /\ ep.why = "exit"
       /\ ops[i].frame = ep.frames) =>
      /\ ep.exitCode = ExitStatus(ep.posix, ExitCode)
      /\ ops[i].pc = "status" =>
           /\ closeEvents = 0
           /\ Len(e2c) >= 4
           /\ \A j \in 1..4 : e2c[j] = [b |-> 0, f |-> ops[i].frame, o |-> j - 1]
      /\ closeEvents > 0 =>
           /\ ops[i].st = "resolved"
           /\ ops[i].atClose = "none"
           /\ ops[i].status = 0
           /\ ops[i].sfrom = << ops[i].frame, 0 >>

\* C36 witness: exit() went behind a write, the endpoint exited, exit()
\* resolved and the 'close' event followed.
C36_Witness ==
  \E i \in DOMAIN ops :
    /\ ops[i].cmd = EXIT /\ ops[i].st = "resolved" /\ ops[i].frame = 2
    /\ ep.why = "exit"
    /\ closeEvents = 1


\* ---------------------------------------------------------------------------
\* A step in which the handler of READ_STDIN returns.
ReadInputStep == ep.st = "cmd" /\ ep.cmd = READ_STDIN /\ ep'.st = "opcode"

\* What that step reads and writes: the request's count, the response, its
\* status and its n.
MaxAsked == readInt32LE(Take(c2e, 4))

Answer == Bytes(Drop(e2c', Len(e2c)))

AnswerStatus == readInt32LE(Take(Answer, 4))

AnswerN == readInt32LE(SubSeq(Answer, 5, 8))

\* The answer the claim describes: status 0 and n, which is 0 when the input
\* is open and has nothing yet, -1 at end-of-input, on a closed input and
\* when the read fails otherwise, and else the length of the head of the
\* waiting bytes that follows it, at most the count asked for; the waiting
\* bytes lose that head and nothing else, and the input keeps its mode.
AnswersAsDescribed ==
  LET buf == ep.stdinBuf
      open == ep.open["stdin"]
      n == AnswerN
  IN  /\ Len(Answer) >= 8
      /\ AnswerStatus = 0
      /\ Len(Answer) = 8 + (IF n > 0 THEN n ELSE 0)
      /\ CASE ~open \/ (buf = <<>> /\ ep.stdinEof) -> n = -1
           [] buf = <<>> -> n = 0 \/ (n = -1 /\ ep.flaky)
           [] OTHER ->
                \/ n = -1 /\ ep.flaky
                \/ /\ 0 < n /\ n <= MaxAsked
                   /\ SubSeq(Answer, 9, 8 + n) = Take(buf, n)
      /\ ep'.stdinBuf = (IF n > 0 THEN Drop(buf, n) ELSE buf)
      /\ ep'.nonblock = ep.nonblock

\* The handler can return whenever its four payload bytes are there, whatever
\* the input holds.
ReadNeverBlocks ==
  (Handling(READ_STDIN) /\ Len(c2e) >= 4) => ENABLED handle_read_stdin

\* C37 as stated: READ_STDIN never blocks the loop and is answered as
\* described, for every count and every endpoint.
C37_ReadInputAsStated ==
  /\ []ReadNeverBlocks
  /\ [][ReadInputStep => AnswersAsDescribed]_vars

\* C37, amended: READ_STDIN never blocks the loop.  A count above 0 whose
\* buffer can be allocated is answered as described.  A count of 0 or below
\* is answered with status 0 and n = 0 whatever the input holds, and a
\* buffer that cannot be allocated with an error status; both leave the
\* input unread and in its mode.
C37_ReadInput ==
  /\ []ReadNeverBlocks
  /\ [][ReadInputStep =>
          CASE MaxAsked <= 0 ->
                 /\ Answer = send_success \o int32(0)
                 /\ ep'.stdinBuf = ep.stdinBuf
                 /\ ep'.nonblock = ep.nonblock
            [] AnswerStatus # 0 ->
                 /\ ep.nomem
                 /\ Answer = send_error(ErrorMessage)
                 /\ ep'.stdinBuf = ep.stdinBuf
                 /\ ep'.nonblock = ep.nonblock
            [] OTHER -> AnswersAsDescribed]_vars

\* C37 witness: with "test\n" waiting, a request for 2 bytes was answered
\* with "te" and a request for 16384 with the other three.
C37_Witness ==
  Bytes(e2c) = send_success \o int32(2) \o << 116, 101 >>
                 \o send_success \o int32(3) \o << 115, 116, 10 >>


\* ---------------------------------------------------------------------------
\* C38: the exit-sent latch is set exactly when some EXIT command has read a
\* status of 0.  It is therefore never cleared, an EXIT that was rejected
\* (with a nonzero status, or before it read one) leaves it as it was, and no
\* other command sets it.
C38_LatchOnExitSuccess ==
  hasSentExit <=>
    \E i \in DOMAIN ops :
      ops[i].cmd = EXIT /\ ops[i].sfrom # <<>> /\ ops[i].status = 0

\* C38 witness: an exit() was answered with a nonzero status and rejected,
\* the command behind it found the latch unset and was sent, and a second
\* exit() was answered with 0 and set the latch.
C38_Witness ==
  \E i, j \in DOMAIN ops :
    /\ i < j
    /\ ops[i].cmd = EXIT /\ ops[i].st = "rejected" /\ ops[i].status # 0
    /\ ops[i + 1].head = "open" /\ ops[i + 1].frame > 0
    /\ ops[j].cmd = EXIT /\ ops[j].st = "resolved"
    /\ hasSentExit

\* ---------------------------------------------------------------------------
\* The facades that exit()'s onBeforeSend finds not yet destroyed.
Undestroyed == { f \in Facades : ~destroyed[f] }

\* The step in which handleInvoke of the exit at position i starts.
ExitStarts(i) ==
  ops[i].cmd = EXIT /\ ops[i].head = "none" /\ ops'[i].head # "none"

\* That step destroys every facade still open and appends one stream-close
\* per such facade at the tail of the queue, behind the exit.
ExitHookStep ==
  \A i \in DOMAIN ops :
    ExitStarts(i) =>
      /\ \A f \in Facades : destroyed'[f]
      /\ Len(ops') = Len(ops) + Cardinality(Undestroyed)
      /\ \A f \in Undestroyed :
           \E j \in (Len(ops) + 1)..Len(ops') :
             /\ j > i
             /\ ops'[j].cmd = CloseCmd(f)
             /\ ops'[j].st = "pending"
             /\ ops'[j].frame = 0

\* Behind an exit that succeeded no stream-close reaches the socket: each is
\* pending or has resolved in the closed branch.
ClosesBehindExit ==
  \A i, j \in DOMAIN ops :
    (ops[i].cmd = EXIT /\ ops[i].st = "resolved" /\ i < j
       /\ ops[j].cmd \in CloseCmds) =>
      /\ ops[j].frame = 0
      /\ \A a \in DOMAIN wire : wire[a] # j
      /\ ops[j].st \in { "pending", "resolved" }
      /\ ops[j].st = "resolved" =>
           (ops[j].res = "void" /\ ops[j].head \in { "exited", "closed" })

\* C39: exit() on undestroyed facades queues their CLOSE_STDIN, CLOSE_STDOUT
\* and CLOSE_STDERR commands behind the EXIT command, and once EXIT has
\* succeeded they resolve locally, so that no stream-close frame is written.
C39_ClosesQueuedBehindExit == []ClosesBehindExit /\ [][ExitHookStep]_vars

\* exit() alone was called, succeeded, and the three stream-closes of its
\* hook resolved while the socket was still open.
C39_Witness ==
  \E i \in DOMAIN ops :
    /\ ops[i].cmd = EXIT /\ ops[i].st = "resolved" /\ ops[i].frame > 0
    /\ calls = 1
    /\ ~sockClosed
    /\ \A f \in Facades :
         \E j \in DOMAIN ops :
           /\ j > i /\ ops[j].cmd = CloseCmd(f)
           /\ ops[j].st = "resolved" /\ ops[j].head = "exited"
    /\ \A a \in DOMAIN wire : wire[a] = i

\* ---------------------------------------------------------------------------
\* The deadline timer fired after the 146 bytes had been read.
ExpiredAfterRead == hs.expired \in { "validating", "accepted" }

\* The step in which the timer fires after the bytes have been read.
LateExpiry == hs.expired = "none" /\ hs'.expired # "none" /\ hs.st # "reading"

\* The late expiry leaves the handshake, the socket and its bytes as they
\* were.
LateExpiryIdle ==
  LateExpiry =>
    /\ hs' = [hs EXCEPT !.expired = hs.st]
    /\ sockClosed' = sockClosed
    /\ e2c' = e2c

\* A handshake rejects for its deadline only when the timer fired during the
\* read; after a late expiry the validator's answer alone decides.
DeadlineBoundsRead ==
  /\ (hs.st = "rejected" /\ hs.why = "timeout") =>
       (hs.expired = "reading" /\ hs.got = <<>> /\ hs.asked = 0)
  /\ hs.expired = "reading" =>
       (hs.st = "rejected" /\ hs.why = "timeout" /\ hs.ended /\ hs.conn = 0)
  /\ ExpiredAfterRead =>
       /\ Len(hs.got) = HANDSHAKE_LENGTH
       /\ hs.why # "timeout"
       /\ hs.ended => hs.verdict \in { "false", "threw" }
       /\ hs.verdict = "none" =>
            (hs.st = hs.expired /\ (hs.st = "validating" => ENABLED ValidatorSettles))
       /\ hs.verdict = "true" =>
            (hs.st = "accepted" /\ hs.conn = 1 /\ hs.listener = 1)

\* C40: the handshake deadline bounds the receipt of the 146 bytes only; a
\* timer that fires once they are read, the validator still pending or not,
\* does not end the socket and does not keep the connection from being
\* accepted.
C40_DeadlineBoundsReadOnly == []DeadlineBoundsRead /\ [][LateExpiryIdle]_vars

\* The timer fired while the validator was pending, the validator then
\* answered true, and the connection was accepted on an open socket.
C40_Witness ==
  /\ hs.expired = "validating"
  /\ hs.verdict = "true"
  /\ hs.st = "accepted" /\ hs.conn = 1
  /\ ~hs.ended
  /\ ~sockClosed


====
